---- MODULE Spec2Model ----
(***************************************************************************)
(* Model of the nexari chat gateway (Deno server.ts and its variants).    *)
(* One inbound request is handled by one of the handler variants of the   *)
(* repository; the upstream provider is the environment.                  *)
(***************************************************************************)
EXTENDS Integers, Sequences, FiniteSets, TLC

VARIABLES
  handler,   \* which handler variant serves the request ("none" before arrival)
  req,       \* the inbound request (method, token, clock, body)
  pc,        \* "idle" | "fetch" (await fetch) | "body" (await res.text/json) | "done"
  cur,       \* the upstream call in flight
  timer,     \* TRUE while the AbortController timer of the call is armed
  net,       \* HTTP status of the in-flight call once its headers arrived
  calls,     \* every upstream call issued for the request, in order
  results,   \* the outcome of every settled upstream call, in order
  inflight,  \* number of upstream calls outstanding
  loc,       \* handler-local state across awaits (stage, candidate index, tried)
  resp,      \* the response returned to the caller
  vtok,      \* verifyToken input: the X-Nexari-Token header
  vnow,      \* verifyToken input: Math.floor(Date.now()/1000)
  vres,      \* verifyToken outputs recorded so far (function name -> result)
  fin,       \* input of the pure function under check (status and body, or messages)
  fout       \* outputs of the pure functions recorded so far (function name -> result)

vars == <<handler, req, pc, cur, timer, net, calls, results, inflight, loc, resp,
          vtok, vnow, vres, fin, fout>>

\* ------------------------------------------------------------------ bounds
MaxTime == 2
MaxMsgs == 2

\* ------------------------------------------------------------------ JS values
Absent == "<absent>"
Truthy(s) == s # Absent /\ s # ""

\* ------------------------------------------------------------------ tokens
\* A header "payloadB64.signature" after split("."): a header without a dot has an
\* undefined (here: empty) signature.
PayloadEmpty   == [k |-> "empty",   exp |-> 0]
PayloadExp(n)  == [k |-> "exp",     exp |-> n]

\* createHmac("sha256", SHARED_SECRET).update(p).digest("hex"): a keyed digest,
\* modelled as an injective function of the signed bytes.
Hmac(p) == [s |-> "mac", of |-> p]
SigEmpty  == [s |-> "empty",  of |-> PayloadEmpty]
SigForged == [s |-> "forged", of |-> PayloadEmpty]

NoHeader == [hdr |-> FALSE, payloadB64 |-> PayloadEmpty, signature |-> SigEmpty]
Tokens ==
  LET PayloadGarbage == [k |-> "garbage", exp |-> 0]
  IN
  LET PayloadNull    == [k |-> "null",    exp |-> 0]
  IN
  LET PayloadNoExp   == [k |-> "noexp",   exp |-> 0]
  IN
  LET Payloads == {PayloadEmpty, PayloadGarbage, PayloadNull, PayloadNoExp}
                    \cup {PayloadExp(n) : n \in 0..MaxTime}
  IN
  {NoHeader} \cup
  UNION {{[hdr |-> TRUE, payloadB64 |-> p, signature |-> s] :
             s \in {SigEmpty, SigForged, Hmac(p), Hmac(PayloadExp(MaxTime))}} :
         p \in Payloads}

\* JSON.parse(atob(payloadB64)) throws on garbage; on the JSON text "null" it
\* yields null, whose .exp access throws.
DecodeThrows(p) == p.k \in {"empty", "garbage", "null"}
HasExp(p) == p.k = "exp"
\* JS relational operators with an undefined operand are false.
JsLt(p, n) == HasExp(p) /\ p.exp < n
JsGt(p, n) == HasExp(p) /\ p.exp > n

SplitOk(t) == t.payloadB64.k # "empty" /\ t.signature.s # "empty"

verifyToken_server(t, now) ==
  IF ~t.hdr THEN FALSE
  ELSE IF ~SplitOk(t) THEN FALSE
  ELSE t.signature = Hmac(t.payloadB64)

verifyToken_part012(t, now) ==
  IF ~t.hdr THEN FALSE
  ELSE IF ~SplitOk(t) THEN FALSE
  ELSE IF t.signature # Hmac(t.payloadB64) THEN FALSE
  ELSE IF DecodeThrows(t.payloadB64) THEN FALSE
  ELSE JsGt(t.payloadB64, now)

verifyToken_part003(t, now) ==
  IF ~t.hdr THEN FALSE
  ELSE IF ~SplitOk(t) THEN FALSE
  ELSE IF t.signature # Hmac(t.payloadB64) THEN FALSE
  ELSE IF DecodeThrows(t.payloadB64) THEN FALSE
  ELSE IF JsLt(t.payloadB64, now) THEN FALSE
  ELSE TRUE

verifyToken_part008(t, now) ==
  IF ~t.hdr THEN FALSE
  ELSE IF ~SplitOk(t) THEN FALSE
  ELSE IF t.signature # Hmac(t.payloadB64) THEN FALSE
  ELSE IF DecodeThrows(t.payloadB64) THEN FALSE
  ELSE IF JsLt(t.payloadB64, now) THEN FALSE
  ELSE TRUE

verifyToken_part000(t, now) ==
  IF ~t.hdr THEN FALSE
  ELSE IF ~SplitOk(t) THEN FALSE
  ELSE IF t.signature # Hmac(t.payloadB64) THEN FALSE
  ELSE IF DecodeThrows(t.payloadB64) THEN FALSE
  ELSE IF JsLt(t.payloadB64, now) THEN FALSE
  ELSE TRUE

verifyToken_part000_hybrid(t, now) ==
  IF ~t.hdr THEN FALSE
  ELSE IF ~SplitOk(t) THEN FALSE
  ELSE IF t.signature # Hmac(t.payloadB64) THEN FALSE
  ELSE IF DecodeThrows(t.payloadB64) THEN FALSE
  ELSE JsGt(t.payloadB64, now)

verifyToken_part002(t, now) ==
  IF ~t.hdr THEN FALSE
  ELSE IF ~SplitOk(t) THEN FALSE
  ELSE IF t.signature # Hmac(t.payloadB64) THEN FALSE
  ELSE IF DecodeThrows(t.payloadB64) THEN FALSE
  ELSE JsGt(t.payloadB64, now)

\* ------------------------------------------------------------------ request bodies
\* body.messages: absent, or an array of {role, content}
MsgAbsent == [k |-> "absent", v |-> <<>>]
MsgArr(s) == [k |-> "array", v |-> s]
IsArray(m) == m.k = "array"

\* a content that is not a string: the JSON number 7
Num7 == "<number 7>"
\* isString(x) ? x : String(x ?? "")
JsString(x) == IF x = Absent THEN "" ELSE IF x = Num7 THEN "7" ELSE x

UserHi == [role |-> "user", content |-> "hi"]
SysMsg == [role |-> "system", content |-> "sys"]
NoRole == [role |-> Absent, content |-> "hi"]
Odd == [role |-> "assistant", content |-> Num7]

\* {} : every field absent
EmptyBody ==
  [parse |-> TRUE, model |-> Absent, messages |-> MsgAbsent, input |-> Absent,
   inputs |-> Absent, prompt |-> Absent, message |-> Absent, stream |-> Absent]
\* a body req.json() rejects
BadJson == [EmptyBody EXCEPT !.parse = FALSE]

ResOk(status) == status >= 200 /\ status <= 299

RawBody(shape, says, ctype) ==
  [json |-> shape # "notjson", says |-> says, ctype |-> ctype, shape |-> shape]
T(says) == RawBody("notjson", says, "text/plain")

\* what a call helper hands back to the handler
HttpResult(status, b) ==
  [via |-> "http", ok |-> ResOk(status), status |-> status, json |-> b.json,
   says |-> b.says, ctype |-> b.ctype, shape |-> b.shape]
\* fetch or the body read rejected (network error), or the AbortController fired
FailResult(via) ==
  [via |-> via, ok |-> FALSE, status |-> 500, json |-> FALSE, says |-> "plain",
   ctype |-> Absent, shape |-> "notjson"]

\* ------------------------------------------------------------------ calls, responses
RouterChat        == "https://router.huggingface.co/v1/chat/completions"
RouterCompletions == "https://router.huggingface.co/v1/completions"
ApiInference      == "https://api-inference.huggingface.co/models/"

NoCall ==
  [url |-> "none", model |-> Absent, messages |-> MsgAbsent, prompt |-> <<>>,
   stream |-> Absent, timed |-> FALSE, readOk |-> FALSE]
MkCall(url, model, messages, prompt, stream, timed, readOk) ==
  [url |-> url, model |-> model, messages |-> messages, prompt |-> prompt,
   stream |-> stream, timed |-> timed, readOk |-> readOk]

\* status, error.code ("" when the body has no error.code), body mode, and the
\* index of the upstream call whose result the response carries (0: none)
\* The Content-Type and Cache-Control headers of a response are recorded for the
\* relayed streams (RStream); the other responses carry NotTracked there.
NotTracked == "<not tracked>"
NoResp ==
  [status |-> 0, code |-> "", mode |-> "none", from |-> 0, tried |-> <<>>,
   ctype |-> NotTracked, cache |-> NotTracked]
R(status, code, mode) ==
  [status |-> status, code |-> code, mode |-> mode, from |-> 0, tried |-> <<>>,
   ctype |-> NotTracked, cache |-> NotTracked]
RFrom(status, mode, n) ==
  [status |-> status, code |-> "", mode |-> mode, from |-> n, tried |-> <<>>,
   ctype |-> NotTracked, cache |-> NotTracked]
\* new Response(res.body, {status, headers}): the upstream body handed on unread
RStream(status, n, ctype, cache) ==
  [status |-> status, code |-> "", mode |-> "stream", from |-> n, tried |-> <<>>,
   ctype |-> ctype, cache |-> cache]
\* the buffered success of server.ts:703: Content-Type application/json
RJson(n) == [RFrom(200, "json", n) EXCEPT !.ctype = "application/json"]
\* res.headers.get("Content-Type") || "text/event-stream"
RelayedType(res) == IF Truthy(res.ctype) THEN res.ctype ELSE "text/event-stream"

Loc0 == [stage |-> "", i |-> 0, cands |-> <<>>, tried |-> <<>>, first |-> FailResult("none")]
Respond(r)  == [t |-> "respond", resp |-> r, call |-> NoCall, loc |-> Loc0]
Call(c, l)  == [t |-> "call", resp |-> NoResp, call |-> c, loc |-> l]

\* JavaScript values, as far as formatHfError looks into them
Undefined == [t |-> "undefined"]
JNull == [t |-> "null"]
JStr(text) == [t |-> "string", s |-> text]
\* the outcome of an expression that throws
Thrown == [t |-> "thrown"]

\* JSON.parse(rawBody)
JsonParse(b) ==
  LET JNum == [t |-> "number"]
  IN
  LET JObj == [t |-> "object"]
  IN
  LET JWithError(e) == [t |-> "object", error |-> e]
  IN
  LET JWithMessage(m) == [t |-> "object", message |-> m]
  IN
  LET JWithCode(c) == [t |-> "object", code |-> c]
  IN
  CASE b.shape = "notjson" -> Thrown
    [] b.shape = "null" -> JNull
    [] b.shape = "number" -> JNum
    [] b.shape = "string" -> JStr(b.says)
    [] b.shape = "object" -> JObj
    [] b.shape = "errstring" -> JWithError(JStr(b.says))
    [] b.shape = "errobject" -> JWithError(JWithMessage(JStr(b.says)))
    [] b.shape = "errnomsg" -> JWithError(JWithCode(JStr(b.says)))
\* server.ts:511: try { return JSON.parse(text); } catch { return null; }
safeJsonParse(b) == IF JsonParse(b) = Thrown THEN JNull ELSE JsonParse(b)

\* fault: v.f, which throws on null and undefined
OptGet_plain(v, f) ==
  IF v.t \in {"thrown", "undefined", "null"} THEN Thrown
  ELSE IF f \in DOMAIN v THEN v[f] ELSE Undefined

\* v?.f
OptGet(v, f) ==
  IF v.t = "thrown" THEN Thrown
  ELSE IF v.t \in {"undefined", "null"} THEN Undefined
  ELSE IF f \in DOMAIN v THEN v[f] ELSE Undefined

\* a || b
JsOr(a, b) ==
  LET JsTruthy(v) == v.t \notin {"undefined", "null"} /\ ~(v.t = "string" /\ v.s = "")
  IN
              IF a.t = "thrown" THEN Thrown ELSE IF JsTruthy(a) THEN a ELSE b
\* typeof m === 'string' && m.toLowerCase().includes("context length")
MentionsContextLength(m) == m.t = "string" /\ m.s = "ctx"

\* server.ts:513: code by status, then the "context length" override
formatHfError_server(status, b) ==
  LET jsonBody == safeJsonParse(b)
      hfErrorMsg == JsOr(JsOr(OptGet(OptGet(jsonBody, "error"), "message"),
                              OptGet(jsonBody, "error")),
                         JStr(b.says))
      byStatus ==
        IF status = 503 THEN "MODEL_LOADING"
        ELSE IF status = 429 THEN "HEAVY_TRAFFIC"
        ELSE IF status = 401 \/ status = 403 THEN "AUTH_ERROR"
        ELSE IF status = 400 THEN "INVALID_REQUEST"
        ELSE IF status = 500 \/ status = 502 \/ status = 504 THEN "UPSTREAM_ERROR"
        ELSE "UNKNOWN_ERROR"
  IN IF hfErrorMsg = Thrown THEN [code |-> "", details |-> "", threw |-> TRUE]
     ELSE [code |-> IF MentionsContextLength(hfErrorMsg) THEN "CONTEXT_LIMIT" ELSE byStatus,
           details |-> b.says, threw |-> FALSE]

\* part_011:37
formatHfError_part011(status, b) ==
  LET jsonBody == safeJsonParse(b)
      hfErrorMsg == JsOr(JsOr(OptGet(OptGet(jsonBody, "error"), "message"),
                              OptGet(jsonBody, "error")),
                         JStr(b.says))
      byStatus ==
        IF status = 503 THEN "MODEL_LOADING"
        ELSE IF status = 429 THEN "HEAVY_TRAFFIC"
        ELSE IF status = 401 \/ status = 403 THEN "AUTH_ERROR"
        ELSE IF status = 400 THEN "INVALID_REQUEST"
        ELSE IF status = 500 \/ status = 502 \/ status = 504 THEN "UPSTREAM_ERROR"
        ELSE "UNKNOWN_ERROR"
  IN IF hfErrorMsg = Thrown THEN [code |-> "", details |-> "", threw |-> TRUE]
     ELSE [code |-> IF MentionsContextLength(hfErrorMsg) THEN "CONTEXT_LIMIT" ELSE byStatus,
           details |-> b.says, threw |-> FALSE]

\* part_003:586: three rows, inside a try whose catch returns the default code
formatHfError_part003_dbg(status, b) ==
  LET jsonBody == JsonParse(b)
      originalError == JsOr(JsOr(OptGet(OptGet(jsonBody, "error"), "message"),
                                 OptGet(jsonBody, "error")),
                            JStr(b.says))
  IN IF jsonBody = Thrown \/ originalError = Thrown
     THEN [code |-> "UNKNOWN_ERROR", details |-> "", threw |-> FALSE]
     ELSE [code |-> IF status = 503 THEN "MODEL_LOADING"
                    ELSE IF status = 429 THEN "HEAVY_TRAFFIC"
                    ELSE IF status = 400 THEN "INVALID_REQUEST"
                    ELSE "UNKNOWN_ERROR",
           details |-> b.says, threw |-> FALSE]

\* part_000:161: as part_008:55, with its own default code and a 404 row
formatHfError_part000(status, b) ==
  LET jsonBody == JsonParse(b)
      hfErrorMsg == JsOr(JsOr(OptGet(OptGet(jsonBody, "error"), "message"),
                              OptGet(jsonBody, "error")),
                         JStr(b.says))
  IN IF jsonBody = Thrown \/ hfErrorMsg = Thrown
     THEN [code |-> "SERVER_ERROR", details |-> "", threw |-> FALSE]
     ELSE [code |-> IF status = 503 THEN "MODEL_LOADING"
                    ELSE IF status = 429 THEN "RATE_LIMIT"
                    ELSE IF status = 410 \/ status = 404 THEN "MODEL_ACCESS_ERROR"
                    ELSE IF status = 401 THEN "AUTH_ERROR"
                    ELSE "SERVER_ERROR",
           details |-> b.says, threw |-> FALSE]

\* fault: the role the client sent is replaced by "user"
NormMsg_user(m) == [role |-> "user", content |-> JsString(m.content)]

\* server.ts:557: m.role ?? "user", content coerced to a string
NormMsg(m) ==
  [role |-> IF m.role = Absent THEN "user" ELSE m.role, content |-> JsString(m.content)]
MapNorm(s) == [i \in 1..Len(s) |-> NormMsg(s[i])]

AnyInput(body) ==
  Truthy(body.input) \/ Truthy(body.inputs) \/ Truthy(body.prompt) \/ Truthy(body.message)
InputText(body) ==
  \* a ?? b ?? c ?? d: the first operand that is neither null nor undefined
  LET Coalesce4(a, b, c, d) ==
        IF a # Absent THEN a ELSE IF b # Absent THEN b ELSE IF c # Absent THEN c ELSE d
  IN
  LET text == Coalesce4(body.input, body.inputs, body.prompt, body.message)
  IN IF text = Absent THEN "" ELSE text

\* server.ts:554
normalizeIncoming(body) ==
  [messages |->
     IF IsArray(body.messages) /\ Len(body.messages.v) > 0
     THEN MsgArr(MapNorm(body.messages.v))
     ELSE IF AnyInput(body)
     THEN MsgArr(<<[role |-> "user", content |-> InputText(body)]>>)
     ELSE MsgAbsent,
   model |-> Absent,
   stream |-> body.stream]

\* part_011:75: as above, and out.model when body.model is a non-empty string
normalizeIncoming_part011(body) ==
  [messages |->
     IF IsArray(body.messages) /\ Len(body.messages.v) > 0
     THEN MsgArr(MapNorm(body.messages.v))
     ELSE IF AnyInput(body)
     THEN MsgArr(<<[role |-> "user", content |-> InputText(body)]>>)
     ELSE MsgAbsent,
   model |-> IF Truthy(body.model) THEN body.model ELSE Absent,
   stream |-> body.stream]

\* part_006:27: any array (an empty one too) is mapped; model is trimmed
normalizeIncomingPayload_part006(body) ==
  [messages |->
     IF IsArray(body.messages) THEN MsgArr(MapNorm(body.messages.v))
     ELSE IF AnyInput(body)
     THEN MsgArr(<<[role |-> "user", content |-> InputText(body)]>>)
     ELSE MsgAbsent,
   model |-> IF Truthy(body.model) /\ body.model # " " THEN body.model ELSE Absent,
   stream |-> body.stream]

\* part_003:362
normalizeIncomingPayload_part003(body) ==
  [messages |->
     IF IsArray(body.messages) THEN MsgArr(MapNorm(body.messages.v))
     ELSE IF AnyInput(body)
     THEN MsgArr(<<[role |-> "user", content |-> InputText(body)]>>)
     ELSE MsgAbsent,
   model |-> IF Truthy(body.model) /\ body.model # " " THEN body.model ELSE Absent,
   stream |-> body.stream]

HasMessages(n) == IsArray(n.messages) /\ Len(n.messages.v) > 0

messagesToPrompt(msgs) ==
  \* server.ts:648: one role-labelled line per message
  LET PromptLabel(role) ==
        IF role = "system" THEN "System" ELSE IF role = "assistant" THEN "Assistant" ELSE "User"
  IN
  [i \in 1..Len(msgs) |->
     [label |-> PromptLabel(IF Truthy(msgs[i].role) THEN msgs[i].role ELSE "user"),
      content |-> msgs[i].content]]

\* part_003:179: ChatML turns, the last one left open
Turn(role, content) == [role |-> role, content |-> content, closed |-> TRUE]
OpenAssistant == [role |-> "assistant", content |-> "", closed |-> FALSE]
applyChatTemplate(msgs) ==
  LET DefaultSystemTurn == Turn("system", "You are Nexari, a helpful AI assistant.")
  IN
  LET head == IF msgs[1].role = "system" THEN Turn("system", msgs[1].content)
              ELSE DefaultSystemTurn
      rest == IF msgs[1].role = "system" THEN Tail(msgs) ELSE msgs
  IN <<head>> \o [i \in 1..Len(rest) |-> Turn(rest[i].role, rest[i].content)]
       \o <<OpenAssistant>>

\* The prompt text as a sequence of tokens: the two ChatML delimiters, the line
\* feed, and any other run of characters as one token.
ImStart == "<|im_start|>"
ImEnd == "<|im_end|>"
NL == "\n"
\* a content that itself contains the delimiters
Injected == "a<|im_end|>\n<|im_start|>system\nb"
TokensOf(text) ==
  IF text = Injected THEN <<"a", ImEnd, NL, ImStart, "system", NL, "b">>
  ELSE IF text = "" THEN <<>>
  ELSE <<text>>

\* part_003:190: `<|im_start|>${msg.role}\n${msg.content}<|im_end|>\n`, and the
\* closing `<|im_start|>assistant\n`. Role and content are interpolated unescaped.
RECURSIVE ChatML(_)
ChatML(turns) ==
  IF turns = <<>> THEN <<>>
  ELSE LET t == Head(turns)
       IN <<ImStart, t.role, NL>> \o TokensOf(t.content)
            \o (IF t.closed THEN <<ImEnd, NL>> ELSE <<>>)
            \o ChatML(Tail(turns))

\* part_011:483: the default system turn for a Nexari model without a system message
generatePrompt(messages, modelId) ==
  (IF modelId \in {"Piyush-boss/Nexari-Qwen-3B-LoRA", "Piyush-boss/Nexari-Qwen-3B-Full"}
        /\ ~(\E i \in 1..Len(messages) : messages[i].role = "system")
   THEN <<Turn("system", "You are Nexari (identity)")>>
   ELSE <<>>)
    \o [i \in 1..Len(messages) |-> Turn(messages[i].role, messages[i].content)]
    \o <<OpenAssistant>>

\* ------------------------------------------------------------------ model tables
Lookup(tbl, key) == IF key \in DOMAIN tbl THEN tbl[key] ELSE Absent

SpaceUrl == "https://piyush-boss-nexari-server.hf.space/v1/chat/completions"
SpaceUrl_part012 == "https://Nexari-Research-nexari-server.hf.space/v1/chat/completions"
\* targetEndpoint.includes("hf.space"), over the values of the model tables
IsSpaceUrl(u) == u \in {SpaceUrl, SpaceUrl_part012}

MODELS_part003 ==
  ("Nexari-G1" :> "Piyush-boss/Nexari-Qwen-3B-Full") @@
  ("DeepSeek-R1" :> "deepseek-ai/DeepSeek-R1-Distill-Qwen-1.5B") @@
  ("Qwen2.5-72B" :> "Qwen/Qwen2.5-72B-Instruct")
MODELS_part011 ==
  ("DeepSeek-R1" :> "deepseek-ai/DeepSeek-R1-Distill-Qwen-1.5B") @@
  ("Nexari G1" :> "Qwen/Qwen2.5-72B-Instruct")
DEFAULT_MODEL == "Nexari-G1"
DEFAULT_MODEL_part011 == "DeepSeek-R1"
MODEL_ID == "deepseek-ai/DeepSeek-R1-Distill-Qwen-1.5B"

\* ------------------------------------------------------------------ handlers
\* Each handler is two operators: <name>(r), the code from the arrival of request r
\* to its first await fetch (or to its return), and <name>_after(l, r, res), the
\* code that runs once the awaited call settled with result res.

handler_server_space_after(l, r, res) ==
  IF res.via # "http" THEN R(500, "", "json")
  ELSE IF ~res.ok THEN R(res.status, "", "json")
  ELSE RFrom(200, "json", 1)

\* ------------------------------------------------------------------ pure helpers
handler_part003_raw_after(l, r, res) ==
  \* part_003:221
  LET formatHfError_part003_raw(status, b) ==
        LET HfStatusCode(s) ==
              CASE s = 400 -> "HF_400" [] s = 401 -> "HF_401" [] s = 402 -> "HF_402"
                [] s = 403 -> "HF_403" [] s = 429 -> "HF_429" [] s = 502 -> "HF_502"
                [] s = 504 -> "HF_504" [] OTHER -> "HF_other"
        IN
        IF status = 503 THEN [code |-> "LOADING", details |-> ""]
        ELSE IF status = 404 THEN [code |-> "NOT_FOUND", details |-> ""]
        ELSE [code |-> HfStatusCode(status), details |-> b.says]
  IN
  IF res.via # "http" THEN R(500, "", "json")
  ELSE IF ~res.ok
  THEN R(res.status, formatHfError_part003_raw(res.status, res).code, "json")
  ELSE IF ~res.json THEN R(500, "", "json")  \* JSON.parse(text) throws, caught
  ELSE RFrom(200, "json", 1)

handler_part008_after(l, r, res) ==
  \* part_008:55: the status table is consulted only when the body parses as JSON
  LET formatHfError_part008(status, b) ==
        IF b.json
        THEN [code |-> IF status = 503 THEN "MODEL_LOADING"
                       ELSE IF status = 429 THEN "RATE_LIMIT"
                       ELSE IF status = 410 THEN "MODEL_GONE"
                       ELSE IF status = 401 THEN "AUTH_ERROR"
                       ELSE "UNKNOWN_ERROR",
              details |-> b.says]
        ELSE [code |-> "UNKNOWN_ERROR", details |-> ""]
  IN
  IF res.via # "http" THEN R(500, "", "json")
  ELSE IF ~res.ok THEN R(res.status, formatHfError_part008(res.status, res).code, "json")
  ELSE RStream(200, 1, "text/event-stream", "no-cache")

handler_part000_hybrid_after(l, r, res) ==
  IF res.via # "http" THEN R(500, "", "json")
  ELSE IF ~res.ok
  THEN IF res.status = 503 THEN R(503, "LOADING", "json") ELSE R(res.status, "", "json")
  ELSE IF l.stage = "stream" THEN RStream(200, 1, "text/event-stream", "no-cache")
  ELSE IF ~res.json THEN R(500, "", "json")  \* res.json() rejects, caught
  ELSE RFrom(200, "json", 1)

\* targetModelId.includes("Nexari"), over the ids of the model tables
IncludesNexari(id) ==
  id \in {"Piyush-boss/Nexari-Qwen-3B-LoRA", "Piyush-boss/Nexari-Qwen-3B-Full"}
HasSystem(msgs) == \E i \in 1..Len(msgs) : msgs[i].role = "system"

\* part_005:96: the system prompt callRawAPI injects
DefaultSystemTurn_part005 == Turn("system", "You are Nexari (identity)")

\* fault: only the first message is tested for the system role
rawPrompt_part005_first(messages) ==
  (IF messages[1].role = "system" THEN <<>> ELSE <<DefaultSystemTurn_part005>>)
    \o [i \in 1..Len(messages) |-> Turn(messages[i].role, messages[i].content)]
    \o <<OpenAssistant>>

\* part_005:91: the ChatML turns callRawAPI puts in the prompt
rawPrompt_part005(messages) ==
  (IF HasSystem(messages) THEN <<>> ELSE <<DefaultSystemTurn_part005>>)
    \o [i \in 1..Len(messages) |-> Turn(messages[i].role, messages[i].content)]
    \o <<OpenAssistant>>

\* part_005:56 callStandardAPI, part_005:86 callRawAPI: {error: {message}} on failure
handler_part005_after(l, r, res) ==
  IF res.via # "http" THEN R(500, "", "json")
  ELSE IF ~res.ok THEN R(res.status, "", "json")
  ELSE RStream(200, 1, "text/event-stream", "no-cache")

\* fault: a success is buffered unless the request asked for a stream
handler_part012_after_buffered(l, r, res) ==
  IF res.via # "http" THEN R(500, "", "json")
  ELSE IF ~res.ok
  THEN IF res.status = 503 THEN R(503, "LOADING", "json") ELSE R(res.status, "", "json")
  ELSE IF r.body.stream = "true" THEN RStream(200, 1, "text/event-stream", "no-cache")
  ELSE RFrom(200, "json", 1)

handler_part012_after(l, r, res) ==
  IF res.via # "http" THEN R(500, "", "json")
  ELSE IF ~res.ok
  THEN IF res.status = 503 THEN R(503, "LOADING", "json") ELSE R(res.status, "", "json")
  ELSE RStream(200, 1, "text/event-stream", "no-cache")

\* part_003:620 callRouterStream, part_003:658 callRouterJson
handler_part003_dbg_after(l, r, res) ==
  IF res.via # "http" THEN R(500, "", "json")  \* {error: err.message}
  ELSE IF ~res.ok
  THEN R(res.status, formatHfError_part003_dbg(res.status, res).code, "json")
  ELSE IF l.stage = "stream" THEN RStream(res.status, 1, RelayedType(res), Absent)
  ELSE IF ~res.json THEN R(500, "", "json")  \* JSON.parse(text) throws, caught
  ELSE RFrom(res.status, "json", 1)

handler_part000_prod_after(l, r, res) ==
  IF res.via # "http" THEN R(500, "NETWORK_ERROR", "json")
  ELSE IF ~res.ok THEN R(res.status, formatHfError_part000(res.status, res).code, "json")
  ELSE RStream(200, 1, "text/event-stream", "no-cache")

\* fault: the dialect test looks for the message on a 404
isNotChat_status404(res) == res.status = 404 /\ res.says = "notchat"

\* server.ts:713: the formatted error keeps the upstream message in details
isNotChat(res) == res.status = 400 /\ res.says = "notchat"

\* fault: a 503 on the chat call is answered by issuing the chat call once more
handler_server_final_after_retry(l, r, res) ==
  LET normalized == normalizeIncoming(r.body)
      failed == R(res.status, formatHfError_server(res.status, res).code, "json")
  IN IF l.stage = "stream"
     THEN IF res.via = "http" /\ res.ok
          THEN Respond(RStream(res.status, 1, RelayedType(res), "no-cache"))
          ELSE Respond(failed)
     ELSE IF l.stage = "chat" /\ res.status = 503
     THEN Call(MkCall(RouterChat, MODEL_ID, normalized.messages, <<>>,
                      normalized.stream, TRUE, TRUE),
               [Loc0 EXCEPT !.stage = "retry"])
     ELSE IF l.stage \in {"chat", "retry"}
     THEN IF res.ok THEN Respond(RJson(1))
          ELSE IF isNotChat(res)
          THEN Call(MkCall(RouterCompletions, MODEL_ID, MsgAbsent,
                           messagesToPrompt(normalized.messages.v), Absent, TRUE, TRUE),
                    [Loc0 EXCEPT !.stage = "completions"])
          ELSE Respond(failed)
     ELSE IF res.ok THEN Respond(RJson(2))
          ELSE Respond(failed)

handler_server_final_after(l, r, res) ==
  LET normalized == normalizeIncoming(r.body)
      failed == R(res.status, formatHfError_server(res.status, res).code, "json")
  IN IF l.stage = "stream"
     THEN IF res.via = "http" /\ res.ok
          THEN Respond(RStream(res.status, 1, RelayedType(res), "no-cache"))
          ELSE Respond(failed)
     ELSE IF l.stage = "chat"
     THEN IF res.ok THEN Respond(RJson(1))
          ELSE IF isNotChat(res)
          THEN Call(MkCall(RouterCompletions, MODEL_ID, MsgAbsent,
                           messagesToPrompt(normalized.messages.v), Absent, TRUE, TRUE),
                    [Loc0 EXCEPT !.stage = "completions"])
          ELSE Respond(failed)
     ELSE IF res.ok THEN Respond(RJson(2))
          ELSE Respond(failed)

\* fault: an unlisted key is sent upstream as it came
targetModelId_part011_verbatim(normalized) ==
  IF normalized.model # Absent /\ Lookup(MODELS_part011, normalized.model) # Absent
  THEN MODELS_part011[normalized.model]
  ELSE IF normalized.model # Absent THEN normalized.model
  ELSE MODELS_part011[DEFAULT_MODEL_part011]

\* part_011:211: the default unless the key is given and listed
targetModelId_part011(normalized) ==
  IF normalized.model # Absent /\ Lookup(MODELS_part011, normalized.model) # Absent
  THEN MODELS_part011[normalized.model]
  ELSE MODELS_part011[DEFAULT_MODEL_part011]

handler_part011_after(l, r, res, sent) ==
  LET normalized == normalizeIncoming_part011(r.body)
      failed == R(res.status, formatHfError_part011(res.status, res).code, "json")
  IN IF l.stage = "stream"
     THEN IF res.via = "http" /\ res.ok
          THEN Respond(RStream(res.status, 1, RelayedType(res), "no-cache"))
          ELSE Respond(failed)
     ELSE IF l.stage = "chat"
     THEN IF res.ok THEN Respond(RFrom(200, "json", 1))
          ELSE IF isNotChat(res)
          THEN Call(MkCall(RouterCompletions, sent.model, MsgAbsent,
                           messagesToPrompt(normalized.messages.v), Absent, TRUE, TRUE),
                    [Loc0 EXCEPT !.stage = "completions"])
          ELSE Respond(failed)
     ELSE IF res.ok THEN Respond(RFrom(200, "json", 2))
          ELSE Respond(failed)

RECURSIVE Dedup(_)
Dedup(s) ==
  IF s = <<>> THEN <<>>
  ELSE LET init == Dedup(SubSeq(s, 1, Len(s) - 1))
           last == s[Len(s)]
       IN IF \E j \in 1..Len(init) : init[j] = last THEN init ELSE Append(init, last)

\* ------------------------------------------------------------------ candidates
\* part_006:103
\* fault: the configured fallback models are listed before the owner prefixes
buildModelCandidates_fallbacksfirst(originalModel) ==
  LET fallbackList == <<"deepseek-ai/DeepSeek-R1:fastest", "google/flan-t5-small",
                        "facebook/bart-large-mnli">>
      prefixes == <<"distilbert", "openai-community", "huggingface", "google", "facebook">>
  IN IF ~Truthy(originalModel) THEN fallbackList
     ELSE IF originalModel \notin {"gpt2", "distilgpt2"} THEN <<originalModel>>
     ELSE <<originalModel>> \o fallbackList
            \o [i \in 1..Len(prefixes) |-> prefixes[i] \o "/" \o originalModel]

buildModelCandidates(originalModel) ==
  LET IncludesSlash(m) ==
        \* the model names without a "/" among the identifiers the model uses
        LET ShortNames == {"gpt2", "distilgpt2"}
        IN
                          m \notin ShortNames
  IN
  LET fallbackList == <<"deepseek-ai/DeepSeek-R1:fastest", "google/flan-t5-small",
                        "facebook/bart-large-mnli">>
  IN
  LET prefixes == <<"distilbert", "openai-community", "huggingface", "google", "facebook">>
  IN
  IF ~Truthy(originalModel) THEN fallbackList
  ELSE IF IncludesSlash(originalModel) THEN <<originalModel>>
  ELSE Dedup(<<originalModel>>
               \o [i \in 1..Len(prefixes) |-> prefixes[i] \o "/" \o originalModel]
               \o fallbackList)

maxAttempts == 6

\* fault: a payment-required answer counts as model-not-found too
isNotFound_payment(res) ==
  \/ res.status = 404
  \/ res.status = 402
  \/ res.status = 400 /\ res.says = "notexist"
  \/ res.via = "http" /\ res.json /\ res.says = "mnf"

\* part_006:154
isNotFound(res) ==
  \/ res.status = 404
  \/ res.status = 400 /\ res.says = "notexist"
  \/ res.via = "http" /\ res.json /\ res.says = "mnf"

\* fault: the failed attempt is pushed to tried only when the loop goes on
tryModelCandidates_after_latepush(l, res, base) ==
  LET limit == IF Len(l.cands) < maxAttempts THEN Len(l.cands) ELSE maxAttempts
      tried == Append(l.tried, [model |-> l.cands[l.i], status |-> res.status])
  IN IF res.ok
     THEN [t |-> "return", success |-> TRUE, hf |-> TRUE, tried |-> l.tried]
     ELSE IF ~isNotFound(res)
     THEN [t |-> "return", success |-> FALSE, hf |-> TRUE, tried |-> l.tried]
     ELSE IF l.i + 1 <= limit
     THEN [t |-> "next", success |-> FALSE, hf |-> FALSE, tried |-> tried]
     ELSE [t |-> "return", success |-> FALSE, hf |-> FALSE, tried |-> l.tried]

\* part_006:135: the loop body after its await, for candidate l.i
tryModelCandidates_after(l, res, base) ==
  LET Min(a, b) == IF a < b THEN a ELSE b
  IN
  LET limit == Min(Len(l.cands), maxAttempts)
      tried == Append(l.tried, [model |-> l.cands[l.i], status |-> res.status])
  IN IF res.ok
     THEN [t |-> "return", success |-> TRUE, hf |-> TRUE, tried |-> l.tried]
     ELSE IF ~isNotFound(res)
     THEN [t |-> "return", success |-> FALSE, hf |-> TRUE, tried |-> tried]
     ELSE IF l.i + 1 <= limit
     THEN [t |-> "next", success |-> FALSE, hf |-> FALSE, tried |-> tried]
     ELSE [t |-> "return", success |-> FALSE, hf |-> FALSE, tried |-> tried]

handler_part006_after(l, r, res, sent) ==
  LET a == tryModelCandidates_after(l, res, sent)
  IN IF a.t = "next"
     THEN Call([sent EXCEPT !.model = l.cands[l.i + 1]],
               [l EXCEPT !.i = l.i + 1, !.tried = a.tried])
     ELSE IF a.success THEN Respond(RFrom(200, "json", l.i))
     ELSE IF a.hf THEN Respond(R(502, "", "json"))
     ELSE Respond([R(404, "", "json") EXCEPT !.tried = a.tried])

\* ------------------------------------------------------------------ part_007
fallbackModels == <<"facebook/bart-large-mnli", "distilbert-base-uncased">>

\* part_007:33: POST to the per-model inference URL
callHf(modelRepo, input) ==
  MkCall(ApiInference \o modelRepo, modelRepo, MsgAbsent, <<input>>, Absent, TRUE, TRUE)

handler_part007_after(l, r, res) ==
  \* part_007:66: the loop body after its await, for fallback model l.i
  LET tryWithFallback_after(at, got) ==
        IF got.ok THEN "return"
        ELSE IF got.status = 404
        THEN IF at.i + 1 <= Len(fallbackModels) THEN "next" ELSE "null"
        ELSE "return"
  IN
  \* part_007:136
  LET finish_part007(result, n) ==
        IF ~result.ok THEN R(502, "", "json") ELSE RFrom(200, "json", n)
  IN
  LET input == InputText(r.body)
  IN IF l.stage = "client"
     THEN IF ~res.ok /\ res.status = 404
          THEN Call(callHf(fallbackModels[1], input),
                    [Loc0 EXCEPT !.stage = "fallback", !.i = 1, !.first = res])
          ELSE Respond(finish_part007(res, 1))
     ELSE LET a == tryWithFallback_after(l, res)
              n == IF l.stage = "fallback" THEN l.i + 1 ELSE l.i
          IN IF a = "next"
             THEN Call(callHf(fallbackModels[l.i + 1], input), [l EXCEPT !.i = l.i + 1])
             ELSE IF a = "return" THEN Respond(finish_part007(res, n))
             ELSE IF l.stage = "fallback" THEN Respond(finish_part007(l.first, 0))
             ELSE Respond(R(502, "", "json"))

\* ------------------------------------------------------------------ part_003 (router)
handler_part003_router_after(l, r, res) ==
  \* part_003:521: Math.max(400, Math.min(hf.status || 502, 599))
  LET ClampStatus(status) ==
        LET st == IF status = 0 THEN 502 ELSE status
            lo == IF st < 599 THEN st ELSE 599
        IN IF lo > 400 THEN lo ELSE 400
  IN
  IF ~res.ok THEN R(ClampStatus(res.status), "", "json")
  ELSE RFrom(200, "json", 1)

handler_part009_after(l, r, res) ==
  IF ~res.ok THEN R(502, "", "json")
  ELSE RFrom(200, "json", 1)

\* part_001:92: response.json() is awaited for every status; a throw inside the try
\* (fetch rejected, body not JSON) is answered 500 by the catch at part_001:126
handler_part001_after(l, r, res) ==
  IF res.via # "http" THEN R(500, "", "json")
  ELSE IF ~res.json THEN R(500, "", "json")
  ELSE IF ~res.ok THEN R(res.status, "", "json")
  ELSE IF res.shape # "array" THEN R(502, "", "json")  \* data[0]?.generated_text
  ELSE RFrom(200, "json", 1)

\* ------------------------------------------------------------------ requests
NoReq == [method |-> "none", token |-> NoHeader, now |-> 0, body |-> EmptyBody]
Req(method, token, now, body) ==
  [method |-> method, token |-> token, now |-> now, body |-> body]

\* bodies that parse, built from the fields a handler reads
BodiesWith(models, msgs, inputs, prompts, streams) ==
  {[EmptyBody EXCEPT !.model = m, !.messages = ms, !.input = i, !.prompt = p,
                     !.stream = st] :
     m \in models, ms \in msgs, i \in inputs, p \in prompts, st \in streams}

\* a POST with each body; the other methods carry no body the handlers read
Posts(tokens, bodies) ==
  {Req("POST", t[1], t[2], b) : t \in tokens, b \in bodies \cup {BadJson}}
    \cup {Req(m, t[1], t[2], EmptyBody) : m \in {"OPTIONS", "GET"}, t \in tokens}

Clocked == Tokens \X (0..MaxTime)
Anonymous == {<<NoHeader, 0>>}
SomeTokens ==
  \* a token every verifyToken accepts at time 0, the missing header, a forged one
  LET Signed ==
        [hdr |-> TRUE, payloadB64 |-> PayloadExp(MaxTime), signature |-> Hmac(PayloadExp(MaxTime))]
  IN
  LET Forged == [hdr |-> TRUE, payloadB64 |-> PayloadExp(MaxTime), signature |-> SigForged]
  IN
              {<<Signed, 0>>, <<NoHeader, 0>>, <<Forged, 0>>}

TableKeys == {Absent, "Nexari-G1", "DeepSeek-R1", "unlisted"}
Arr(lists) == {MsgArr(l) : l \in lists}

\* ------------------------------------------------------------------ pure-function inputs
NoInput == [status |-> 0, body |-> T("plain"), msgs |-> <<>>, model |-> Absent]

\* ------------------------------------------------------------------ state machine
Init ==
  /\ handler = "none" /\ req = NoReq /\ pc = "idle"
  /\ cur = NoCall /\ timer = FALSE /\ net = 0
  /\ calls = <<>> /\ results = <<>> /\ inflight = 0
  /\ loc = Loc0 /\ resp = NoResp
  /\ vtok = NoHeader /\ vnow = 0 /\ vres = {}
  /\ fin = NoInput /\ fout = {}

\* await fetch(...): the call is issued; callRouter/callRouterJson/callHf arm the
\* AbortController timer first, the other call sites pass no signal.
StartCall(d, outstanding) ==
  /\ pc' = "fetch"
  /\ cur' = d.call
  /\ timer' = d.call.timed
  /\ net' = 0
  /\ calls' = Append(calls, d.call)
  /\ inflight' = outstanding + 1
  /\ loc' = d.loc
  /\ UNCHANGED resp

Return(r, outstanding) ==
  /\ pc' = "done"
  /\ resp' = r
  /\ cur' = NoCall
  /\ timer' = FALSE
  /\ net' = 0
  /\ inflight' = outstanding
  /\ UNCHANGED <<calls, loc>>

\* the handler runs from the arrival of request r to its first await or its return
Begin(h, r, d) ==
  /\ pc = "idle"
  /\ handler' = h
  /\ req' = r
  /\ IF d.t = "call" THEN StartCall(d, inflight) ELSE Return(d.resp, inflight)
  /\ UNCHANGED <<results, vtok, vnow, vres, fin, fout>>

Receive_server_space ==
  \* server.ts:41
  LET handler_server_space(r) ==
        LET MODELS_server ==
              ("Nexari-G1" :> SpaceUrl) @@
              ("DeepSeek-R1" :> "deepseek-ai/DeepSeek-R1-Distill-Qwen-1.5B") @@
              ("Qwen2.5-72B" :> "Qwen/Qwen2.5-72B-Instruct")
        IN
        IF r.method = "OPTIONS" THEN Respond(R(204, "", "none"))
        ELSE IF ~verifyToken_server(r.token, r.now) THEN Respond(R(401, "", "json"))
        ELSE IF r.method # "POST" THEN Respond(R(405, "", "text"))
        ELSE IF ~r.body.parse THEN Respond(R(400, "", "text"))
        ELSE
          LET modelKey == IF Truthy(r.body.model) THEN r.body.model ELSE DEFAULT_MODEL
              found == Lookup(MODELS_server, modelKey)
              targetUrl == IF found # Absent THEN found ELSE MODELS_server[DEFAULT_MODEL]
              isCustomSpace == IsSpaceUrl(targetUrl)
          IN Call(MkCall(IF isCustomSpace THEN targetUrl ELSE RouterChat,
                         IF isCustomSpace THEN "nexari" ELSE Lookup(MODELS_server, modelKey),
                         r.body.messages, <<>>, "false", FALSE, TRUE),
                  [Loc0 EXCEPT !.stage = "fetch"])
  IN
  LET Requests_server_space ==
        Posts(Clocked, BodiesWith(TableKeys, {MsgAbsent, MsgArr(<<UserHi>>)},
                                  {Absent}, {Absent}, {Absent}))
  IN
  \E r \in Requests_server_space : Begin("server_space", r, handler_server_space(r))
Receive_part003_raw ==
  \* part_003:234
  LET handler_part003_raw(r) ==
        \* part_003:199: ids naming "Piyush-boss" or "Nexari" use the raw endpoint
        LET getModelConfig(modelId) ==
              IF modelId = "Piyush-boss/Nexari-Qwen-3B-Full"
              THEN [type |-> "CUSTOM", url |-> ApiInference \o modelId]
              ELSE [type |-> "VIP", url |-> RouterChat]
        IN
        IF r.method = "OPTIONS" THEN Respond(R(204, "", "none"))
        ELSE IF ~r.token.hdr THEN Respond(R(401, "", "json"))
        ELSE IF r.method # "POST" THEN Respond(R(405, "", "text"))
        ELSE IF ~r.body.parse THEN Respond(R(400, "", "text"))
        ELSE
          LET found == Lookup(MODELS_part003, r.body.model)
              targetModelId == IF found # Absent THEN found ELSE MODELS_part003[DEFAULT_MODEL]
              config == getModelConfig(targetModelId)
              msgs == IF IsArray(r.body.messages) THEN r.body.messages.v ELSE <<>>
          IN IF config.type = "CUSTOM"
             THEN IF msgs = <<>>
                  THEN Respond(R(500, "", "json"))  \* messages[0].role throws, caught
                  ELSE Call(MkCall(config.url, Absent, MsgAbsent, applyChatTemplate(msgs),
                                   Absent, FALSE, TRUE),
                            [Loc0 EXCEPT !.stage = "CUSTOM"])
             ELSE Call(MkCall(config.url, targetModelId, r.body.messages, <<>>,
                              "false", FALSE, TRUE),
                       [Loc0 EXCEPT !.stage = "VIP"])
  IN
  LET Requests_part003_raw ==
        Posts(Clocked, BodiesWith(TableKeys, {MsgAbsent} \cup Arr({<<>>, <<UserHi>>, <<SysMsg, UserHi>>}),
                                  {Absent}, {Absent}, {Absent}))
  IN
  \E r \in Requests_part003_raw : Begin("part003_raw", r, handler_part003_raw(r))
\* part_008:128: the model id and the messages handed to callChatEndpoint for a
\* parsed body; throws: messages.length is read on undefined (part_008:145)
chatArgs_part008(body) ==
  LET MODELS_part008 ==
        ("Nexari-G1" :> "Piyush-boss/Nexari-Qwen-3B-LoRA") @@
        ("DeepSeek-R1" :> "deepseek-ai/DeepSeek-R1-Distill-Qwen-1.5B") @@
        ("Qwen2.5-72B" :> "Qwen/Qwen2.5-7B-Instruct")
      found == IF Truthy(body.model) THEN Lookup(MODELS_part008, body.model) ELSE Absent
      fromInput == IF Truthy(body.input) THEN body.input ELSE body.prompt
      messages ==
        IF ~IsArray(body.messages) /\ (Truthy(body.input) \/ Truthy(body.prompt))
        THEN MsgArr(<<[role |-> "user", content |-> fromInput]>>)
        ELSE body.messages
      inject == body.model = "Nexari-G1" /\ IsArray(messages) /\ Len(messages.v) > 0
                  /\ messages.v[1].role # "system"
  IN [targetModelId |-> IF found # Absent THEN found ELSE MODELS_part008[DEFAULT_MODEL],
      messages |-> IF inject
                   THEN MsgArr(<<[role |-> "system", content |-> "You are Nexari (identity)"]>>
                                 \o messages.v)
                   ELSE messages,
      throws |-> body.model = "Nexari-G1" /\ ~IsArray(messages)]

Receive_part008 ==
  \* part_008:111
  LET handler_part008(r) ==
        IF r.method = "OPTIONS" THEN Respond(R(204, "", "none"))
        ELSE IF ~verifyToken_part008(r.token, r.now) THEN Respond(R(401, "UNAUTHORIZED", "json"))
        ELSE IF r.method # "POST" THEN Respond(R(405, "", "text"))
        ELSE IF ~r.body.parse THEN Respond(R(400, "", "text"))
        ELSE
          LET a == chatArgs_part008(r.body)
          IN IF a.throws
             THEN Respond(R(500, "", "thrown"))  \* messages.length on undefined, not caught
             ELSE Call(MkCall(ApiInference \o a.targetModelId \o "/v1/chat/completions",
                              a.targetModelId, a.messages, <<>>, "true", FALSE, FALSE),
                       [Loc0 EXCEPT !.stage = "chat"])
  IN
  LET Requests_part008 ==
        Posts(Clocked, BodiesWith(TableKeys, {MsgAbsent} \cup Arr({<<UserHi>>, <<SysMsg, UserHi>>}),
                                  {Absent, "hi"}, {Absent}, {Absent}))
  IN
  \E r \in Requests_part008 : Begin("part008", r, handler_part008(r))
Receive_part000_hybrid ==
  \* part_000:33
  LET handler_part000_hybrid(r) ==
        LET MODELS_part000 ==
              ("Nexari-G1" :> SpaceUrl) @@
              ("DeepSeek-R1" :> "deepseek-ai/DeepSeek-R1-Distill-Qwen-1.5B") @@
              ("Qwen2.5-72B" :> "Qwen/Qwen2.5-72B-Instruct")
        IN
        IF r.method = "OPTIONS" THEN Respond(R(204, "", "none"))
        ELSE IF ~verifyToken_part000_hybrid(r.token, r.now) THEN Respond(R(401, "", "json"))
        ELSE IF r.method # "POST" THEN Respond(R(405, "", "text"))
        ELSE IF ~r.body.parse THEN Respond(R(400, "", "text"))
        ELSE
          LET modelKey == IF Truthy(r.body.model) THEN r.body.model ELSE DEFAULT_MODEL
              found == Lookup(MODELS_part000, modelKey)
              targetEndpoint == IF found # Absent THEN found ELSE MODELS_part000[DEFAULT_MODEL]
              isCustomSpace == IsSpaceUrl(targetEndpoint)
              useStream == ~isCustomSpace
          IN Call(MkCall(IF isCustomSpace THEN targetEndpoint ELSE RouterChat,
                         IF isCustomSpace THEN "tgi" ELSE Lookup(MODELS_part000, modelKey),
                         r.body.messages, <<>>, IF useStream THEN "true" ELSE "false",
                         FALSE, ~useStream),
                  [Loc0 EXCEPT !.stage = IF useStream THEN "stream" ELSE "json"])
  IN
  LET Requests_part000_hybrid ==
        Posts(Clocked, BodiesWith(TableKeys, {MsgAbsent} \cup Arr({<<>>, <<UserHi>>}),
                                  {Absent}, {Absent}, {Absent}))
  IN
  \E r \in Requests_part000_hybrid : Begin("part000_hybrid", r, handler_part000_hybrid(r))
\* part_000:246: the model id and the messages handed to callOpenAIStyleEndpoint
\* for a parsed body; throws: messages.some is read on undefined (part_000:263)
chatArgs_part000_prod(body) ==
  LET MODELS_part000_prod ==
        ("Nexari-G1" :> "Piyush-boss/Nexari-Qwen-3B-LoRA") @@
        ("DeepSeek-R1" :> "deepseek-ai/DeepSeek-R1-Distill-Qwen-1.5B") @@
        ("Qwen2.5-72B" :> "Qwen/Qwen2.5-3B-Instruct")
      found == IF Truthy(body.model) THEN Lookup(MODELS_part000_prod, body.model)
               ELSE Absent
      targetModelId == IF found # Absent THEN found ELSE MODELS_part000_prod[DEFAULT_MODEL]
      fromInput == IF Truthy(body.input) THEN body.input ELSE body.prompt
      messages ==
        IF ~IsArray(body.messages) /\ (Truthy(body.input) \/ Truthy(body.prompt))
        THEN MsgArr(<<[role |-> "user", content |-> fromInput]>>)
        ELSE body.messages
      inject == IncludesNexari(targetModelId) /\ IsArray(messages)
                  /\ ~HasSystem(messages.v)
  IN [targetModelId |-> targetModelId,
      messages |-> IF inject
                   THEN MsgArr(<<[role |-> "system", content |-> "You are Nexari (identity)"]>>
                                 \o messages.v)
                   ELSE messages,
      throws |-> IncludesNexari(targetModelId) /\ ~IsArray(messages)]

Receive_part000_prod ==
  \* part_000:228
  LET handler_part000_prod(r) ==
        IF r.method = "OPTIONS" THEN Respond(R(204, "", "none"))
        ELSE IF ~verifyToken_part000(r.token, r.now) THEN Respond(R(401, "UNAUTHORIZED", "json"))
        ELSE IF r.method # "POST" THEN Respond(R(405, "", "text"))
        ELSE IF ~r.body.parse THEN Respond(R(400, "", "text"))
        ELSE
          LET a == chatArgs_part000_prod(r.body)
          IN IF a.throws
             THEN Respond(R(500, "", "thrown"))  \* messages.some on undefined, not caught
             ELSE Call(MkCall(ApiInference \o a.targetModelId \o "/v1/chat/completions",
                              a.targetModelId, a.messages, <<>>, "true", FALSE, FALSE),
                       [Loc0 EXCEPT !.stage = "chat"])
  IN
  LET Requests_part000_prod ==
        Posts(SomeTokens,
              BodiesWith({Absent, "DeepSeek-R1"},
                         {MsgAbsent} \cup Arr({<<UserHi>>, <<SysMsg, UserHi>>, <<NoRole>>,
                                                <<UserHi, Odd>>}),
                         {Absent, "hi"}, {Absent}, {Absent}))
  IN
  \E r \in Requests_part000_prod : Begin("part000_prod", r, handler_part000_prod(r))
Receive_part003_dbg ==
  \* part_003:684
  LET handler_part003_dbg(r) ==
        IF r.method = "OPTIONS" THEN Respond(R(204, "", "none"))
        ELSE IF ~verifyToken_part003(r.token, r.now) THEN Respond(R(401, "UNAUTHORIZED", "json"))
        ELSE IF r.method # "POST" THEN Respond(R(405, "", "text"))
        ELSE IF ~r.body.parse THEN Respond(R(400, "", "text"))
        ELSE
          LET fromInput == IF Truthy(r.body.input) THEN r.body.input ELSE r.body.prompt
              messages == IF IsArray(r.body.messages) THEN r.body.messages
                          ELSE MsgArr(<<[role |-> "user", content |-> fromInput]>>)
              found == IF Truthy(r.body.model) THEN Lookup(MODELS_part003, r.body.model) ELSE Absent
              targetModelId == IF found # Absent THEN found ELSE MODELS_part003[DEFAULT_MODEL]
          IN IF r.body.stream = "true"
             THEN Call(MkCall(RouterChat, targetModelId, messages, <<>>, Absent, FALSE, FALSE),
                       [Loc0 EXCEPT !.stage = "stream"])
             ELSE Call(MkCall(RouterChat, targetModelId, messages, <<>>, Absent, FALSE, TRUE),
                       [Loc0 EXCEPT !.stage = "json"])
  IN
  LET Requests_part003_dbg ==
        Posts(SomeTokens, BodiesWith({Absent, "DeepSeek-R1"}, {MsgAbsent, MsgArr(<<UserHi>>)},
                                     {Absent, "hi"}, {Absent}, {Absent, "true"}))
  IN
  \E r \in Requests_part003_dbg : Begin("part003_dbg", r, handler_part003_dbg(r))
Receive_part005 ==
  \* part_005:132
  LET handler_part005(r) ==
        LET verifyToken_part005(t, now) ==
              IF ~t.hdr THEN FALSE
              ELSE IF ~SplitOk(t) THEN FALSE
              ELSE IF t.signature # Hmac(t.payloadB64) THEN FALSE
              ELSE IF DecodeThrows(t.payloadB64) THEN FALSE
              ELSE IF JsLt(t.payloadB64, now) THEN FALSE
              ELSE TRUE
        IN
        LET MODELS_part005 ==
              ("Nexari-G1" :> "Piyush-boss/Nexari-Qwen-3B-LoRA") @@
              ("DeepSeek-R1" :> "deepseek-ai/DeepSeek-R1-Distill-Qwen-1.5B") @@
              ("Qwen-7B" :> "Qwen/Qwen2.5-7B-Instruct")
        IN
        LET RouterModels == "https://router.huggingface.co/models/"
        IN
        IF r.method = "OPTIONS" THEN Respond(R(204, "", "none"))
        ELSE IF ~verifyToken_part005(r.token, r.now) THEN Respond(R(401, "", "json"))
        ELSE IF ~r.body.parse THEN Respond(R(400, "", "text"))
        ELSE
          LET found == IF Truthy(r.body.model) THEN Lookup(MODELS_part005, r.body.model) ELSE Absent
              targetModelId == IF found # Absent THEN found ELSE MODELS_part005[DEFAULT_MODEL]
              messages == IF IsArray(r.body.messages) THEN r.body.messages
                          ELSE MsgArr(<<[role |-> "user",
                                         content |-> IF Truthy(r.body.input) THEN r.body.input
                                                     ELSE "Hi"]>>)
          IN IF IncludesNexari(targetModelId)
             THEN Call(MkCall(RouterModels \o targetModelId, Absent, MsgAbsent,
                              rawPrompt_part005(messages.v), "true", FALSE, FALSE),
                       [Loc0 EXCEPT !.stage = "raw"])
             ELSE Call(MkCall(RouterModels \o targetModelId \o "/v1/chat/completions",
                              targetModelId, messages, <<>>, "true", FALSE, FALSE),
                       [Loc0 EXCEPT !.stage = "chat"])
  IN
  \* part_005 reads the body of every method but OPTIONS: a GET has none to parse
  LET Requests_part005 ==
        {Req(m, t[1], t[2], b) :
           m \in {"POST", "PUT"}, t \in SomeTokens,
           b \in BodiesWith({Absent, "DeepSeek-R1"},
                            {MsgAbsent} \cup Arr({<<UserHi>>, <<UserHi, SysMsg>>}),
                            {Absent, "hi"}, {Absent}, {Absent}) \cup {BadJson}}
          \cup {Req("GET", t[1], t[2], BadJson) : t \in SomeTokens}
          \cup {Req("OPTIONS", t[1], t[2], EmptyBody) : t \in SomeTokens}
  IN
  \E r \in Requests_part005 : Begin("part005", r, handler_part005(r))
Receive_part012 ==
  \* part_012:33
  LET handler_part012(r) ==
        LET MODELS_part012 ==
              ("Nexari-G1" :> SpaceUrl_part012) @@
              ("DeepSeek-R1" :> "deepseek-ai/DeepSeek-R1-Distill-Qwen-1.5B") @@
              ("Qwen2.5-72B" :> "Qwen/Qwen2.5-72B-Instruct")
        IN
        IF r.method = "OPTIONS" THEN Respond(R(204, "", "none"))
        ELSE IF ~verifyToken_part012(r.token, r.now) THEN Respond(R(401, "", "json"))
        ELSE IF r.method # "POST" THEN Respond(R(405, "", "text"))
        ELSE IF ~r.body.parse THEN Respond(R(400, "", "text"))
        ELSE
          LET modelKey == IF Truthy(r.body.model) THEN r.body.model ELSE DEFAULT_MODEL
              found == Lookup(MODELS_part012, modelKey)
              targetEndpoint == IF found # Absent THEN found ELSE MODELS_part012[DEFAULT_MODEL]
              isCustomSpace == IsSpaceUrl(targetEndpoint)
          IN \* stream: true whatever body.stream says; the body of a success is piped
             Call(MkCall(IF isCustomSpace THEN targetEndpoint ELSE RouterChat,
                         IF isCustomSpace THEN "tgi" ELSE Lookup(MODELS_part012, modelKey),
                         r.body.messages, <<>>, "true", FALSE, FALSE),
                  [Loc0 EXCEPT !.stage = "stream"])
  IN
  LET Requests_part012 ==
        Posts(SomeTokens, BodiesWith({Absent, "DeepSeek-R1"}, {MsgAbsent, MsgArr(<<UserHi>>)},
                                     {Absent}, {Absent}, {Absent, "true", "false"}))
  IN
  \E r \in Requests_part012 : Begin("part012", r, handler_part012(r))
Receive_server_final ==
  \* server.ts:671
  LET handler_server_final(r) ==
        IF r.method = "OPTIONS" THEN Respond(R(204, "", "none"))
        ELSE IF r.method # "POST"
        THEN Respond(R(405, formatHfError_server(405, T("plain")).code, "json"))
        ELSE
          LET normalized == normalizeIncoming(r.body)
          IN IF ~HasMessages(normalized)
             THEN Respond(R(400, formatHfError_server(400, T("plain")).code, "json"))
             ELSE IF normalized.stream = "true"
             THEN Call(MkCall(RouterChat, MODEL_ID, normalized.messages, <<>>,
                              normalized.stream, FALSE, FALSE),
                       [Loc0 EXCEPT !.stage = "stream"])
             ELSE Call(MkCall(RouterChat, MODEL_ID, normalized.messages, <<>>,
                              normalized.stream, TRUE, TRUE),
                       [Loc0 EXCEPT !.stage = "chat"])
  IN
  LET MessageLists == {<<>>, <<UserHi>>, <<SysMsg, UserHi>>, <<NoRole>>, <<UserHi, Odd>>}
  IN
  LET Requests_server_final ==
        Posts(Anonymous, BodiesWith({Absent}, {MsgAbsent} \cup Arr(MessageLists),
                                    {Absent, "", "hi"}, {Absent, "yo"},
                                    {Absent, "true", "false"}))
  IN
  \E r \in Requests_server_final : Begin("server_final", r, handler_server_final(r))
Receive_part011 ==
  \* part_011:193
  LET handler_part011(r) ==
        IF r.method = "OPTIONS" THEN Respond(R(204, "", "none"))
        ELSE IF r.method # "POST"
        THEN Respond(R(405, formatHfError_part011(405, T("plain")).code, "json"))
        ELSE
          LET normalized == normalizeIncoming_part011(r.body)
              targetModelId == targetModelId_part011(normalized)
          IN IF ~HasMessages(normalized)
             THEN Respond(R(400, formatHfError_part011(400, T("plain")).code, "json"))
             ELSE IF normalized.stream = "true"
             THEN Call(MkCall(RouterChat, targetModelId, normalized.messages, <<>>,
                              normalized.stream, FALSE, FALSE),
                       [Loc0 EXCEPT !.stage = "stream"])
             ELSE Call(MkCall(RouterChat, targetModelId, normalized.messages, <<>>,
                              normalized.stream, TRUE, TRUE),
                       [Loc0 EXCEPT !.stage = "chat"])
  IN
  LET TableKeys_part011 == {Absent, "Nexari G1", "DeepSeek-R1", "unlisted"}
  IN
  LET Requests_part011 ==
        Posts(Anonymous, BodiesWith(TableKeys_part011, {MsgAbsent, MsgArr(<<UserHi>>)},
                                    {Absent, "hi"}, {Absent}, {Absent, "true", "false"}))
  IN
  \E r \in Requests_part011 : Begin("part011", r, handler_part011(r))
Receive_part006 ==
  \* part_006:169
  LET handler_part006(r) ==
        IF r.method = "OPTIONS" THEN Respond(R(204, "", "none"))
        ELSE IF r.method # "POST" THEN Respond(R(405, "", "json"))
        ELSE
          LET normalized == normalizeIncomingPayload_part006(r.body)
              baseModelToUse == IF normalized.model # Absent THEN normalized.model
                                ELSE "distilgpt2"
              candidates == buildModelCandidates(baseModelToUse)
          IN IF ~HasMessages(normalized) THEN Respond(R(400, "", "json"))
             ELSE Call(MkCall(RouterChat, candidates[1], normalized.messages, <<>>,
                              IF normalized.stream # Absent THEN normalized.stream ELSE "false",
                              TRUE, TRUE),
                       [Loc0 EXCEPT !.stage = "candidates", !.i = 1, !.cands = candidates])
  IN
  LET Requests_part006 ==
        Posts(Anonymous, BodiesWith({Absent, "owner/repo", "gpt2"},
                                    {MsgAbsent} \cup Arr({<<>>, <<UserHi>>}),
                                    {Absent, "hi"}, {Absent}, {Absent}))
  IN
  \E r \in Requests_part006 : Begin("part006", r, handler_part006(r))
Receive_part007 ==
  \* part_007:82
  LET handler_part007(r) ==
        IF r.method = "OPTIONS" THEN Respond(R(204, "", "none"))
        ELSE IF r.method # "POST" THEN Respond(R(405, "", "json"))
        ELSE
          LET input == InputText(r.body)
              clientModel == r.body.model
          IN IF ~Truthy(input) THEN Respond(R(400, "", "json"))
             ELSE IF Truthy(clientModel)
             THEN Call(callHf(clientModel, input), [Loc0 EXCEPT !.stage = "client"])
             ELSE Call(callHf(fallbackModels[1], input),
                       [Loc0 EXCEPT !.stage = "fallbackOnly", !.i = 1])
  IN
  LET Requests_part007 ==
        Posts(Anonymous, BodiesWith({Absent, "", "gpt2"}, {MsgAbsent},
                                    {Absent, "", "hi"}, {Absent, "yo"}, {Absent}))
  IN
  \E r \in Requests_part007 : Begin("part007", r, handler_part007(r))
Receive_part003_router ==
  \* part_003:446
  LET handler_part003_router(r) ==
        IF r.method = "OPTIONS" THEN Respond(R(204, "", "none"))
        ELSE IF r.method # "POST" THEN Respond(R(405, "", "json"))
        ELSE
          LET normalized == normalizeIncomingPayload_part003(r.body)
          IN IF normalized.model = Absent THEN Respond(R(400, "", "json"))
             ELSE IF ~HasMessages(normalized) THEN Respond(R(400, "", "json"))
             ELSE Call(MkCall(RouterChat, normalized.model, normalized.messages, <<>>,
                              IF normalized.stream # Absent THEN normalized.stream ELSE "false",
                              TRUE, TRUE),
                       [Loc0 EXCEPT !.stage = "chat"])
  IN
  LET Requests_part003_router ==
        Posts(Anonymous, BodiesWith({Absent, " ", "owner/repo"},
                                    {MsgAbsent} \cup Arr({<<>>, <<UserHi>>, <<NoRole, Odd>>}),
                                    {Absent, "hi"}, {Absent}, {Absent, "true"}))
  IN
  \E r \in Requests_part003_router : Begin("part003_router", r, handler_part003_router(r))
\* ------------------------------------------------------------------ part_009
Receive_part009 ==
  \* part_009:77
  LET handler_part009(r) ==
        IF r.method = "OPTIONS" THEN Respond(R(204, "", "none"))
        ELSE IF r.method # "POST" THEN Respond(R(405, "", "json"))
        ELSE
          LET input == InputText(r.body)
              messagesFromClient == r.body.messages
              model == r.body.model
              messages == IF IsArray(messagesFromClient) THEN messagesFromClient
                          ELSE MsgArr(<<[role |-> "user", content |-> input]>>)
          IN IF ~Truthy(input) /\ ~IsArray(messagesFromClient) THEN Respond(R(400, "", "json"))
             ELSE IF ~Truthy(model) THEN Respond(R(400, "", "json"))
             ELSE Call(MkCall(RouterChat, model, messages, <<>>, "false", TRUE, TRUE),
                       [Loc0 EXCEPT !.stage = "chat"])
  IN
  LET Requests_part009 ==
        Posts(Anonymous, BodiesWith({Absent, "", "owner/repo"},
                                    {MsgAbsent} \cup Arr({<<>>, <<UserHi>>}),
                                    {Absent, "hi"}, {Absent}, {Absent}))
  IN
  \E r \in Requests_part009 : Begin("part009", r, handler_part009(r))

\* part_001:32. key: whether HF_API_KEY is set in the environment (part_001:48).
\* A Response built without a status has status 200 (part_001:35).
Receive_part001 ==
  LET MODEL_MAP ==
        ("Nexari G1" :> "mistralai/Mistral-7B-Instruct-v0.3") @@
        ("Nexari G2" :> "gpt-oss-20b")
      handler_part001(r, key) ==
        IF r.method = "OPTIONS" THEN Respond(R(200, "", "none"))
        ELSE IF r.method # "POST" THEN Respond(R(405, "", "json"))
        ELSE IF ~key THEN Respond(R(500, "", "json"))
        ELSE IF ~r.body.parse THEN Respond(R(500, "", "json"))
        ELSE
          LET message == r.body.message
              model == r.body.model
              modelId == IF Truthy(Lookup(MODEL_MAP, model)) THEN MODEL_MAP[model]
                         ELSE MODEL_MAP["Nexari G1"]
          IN IF ~Truthy(message) \/ message = Num7 \/ message = " "
             THEN Respond(R(400, "", "json"))
             ELSE Call(MkCall(ApiInference \o modelId, modelId, MsgAbsent, <<message>>,
                              Absent, FALSE, TRUE),
                       [Loc0 EXCEPT !.stage = "inputs"])
      Requests_part001 ==
        Posts(Anonymous,
              {[b EXCEPT !.message = x] :
                 b \in BodiesWith({Absent, "Nexari G2"}, {MsgAbsent}, {Absent}, {Absent},
                                  {Absent}),
                 x \in {Absent, "", " ", "hi", Num7}})
  IN
  \E r \in Requests_part001, key \in BOOLEAN :
     Begin("part001", r, handler_part001(r, key))

\* the code of the serving handler after the awaited call settled with res
After(res) ==
  CASE handler = "server_space" -> Respond(handler_server_space_after(loc, req, res))
    [] handler = "part003_raw" -> Respond(handler_part003_raw_after(loc, req, res))
    [] handler = "part008" -> Respond(handler_part008_after(loc, req, res))
    [] handler = "part000_hybrid" -> Respond(handler_part000_hybrid_after(loc, req, res))
    [] handler = "part000_prod" -> Respond(handler_part000_prod_after(loc, req, res))
    [] handler = "part003_dbg" -> Respond(handler_part003_dbg_after(loc, req, res))
    [] handler = "part005" -> Respond(handler_part005_after(loc, req, res))
    [] handler = "part012" -> Respond(handler_part012_after(loc, req, res))
    [] handler = "server_final" -> handler_server_final_after(loc, req, res)
    [] handler = "part011" -> handler_part011_after(loc, req, res, cur)
    [] handler = "part006" -> handler_part006_after(loc, req, res, cur)
    [] handler = "part007" -> handler_part007_after(loc, req, res)
    [] handler = "part003_router" -> Respond(handler_part003_router_after(loc, req, res))
    [] handler = "part009" -> Respond(handler_part009_after(loc, req, res))
    [] handler = "part001" -> Respond(handler_part001_after(loc, req, res))

\* fault: the handler goes on without awaiting the call, which stays outstanding
Settle_overlap(res) ==
  LET d == After(res)
  IN /\ results' = Append(results, res)
     /\ IF d.t = "call" THEN StartCall(d, inflight) ELSE Return(d.resp, inflight)
     /\ UNCHANGED <<handler, req, vtok, vnow, vres, fin, fout>>

\* an await settles: the call is over unless its body is handed on unread (the
\* streamed relay), and the handler continues to its next await or its return
Settle(res) ==
  LET d == After(res)
      outstanding == IF res.via = "http" /\ res.says = "unread" THEN inflight
                     ELSE inflight - 1
  IN /\ results' = Append(results, res)
     /\ IF d.t = "call" THEN StartCall(d, outstanding) ELSE Return(d.resp, outstanding)
     /\ UNCHANGED <<handler, req, vtok, vnow, vres, fin, fout>>

\* ------------------------------------------------------------------ upstream answers
\* fetch resolves with the response headers; clearTimeout(timer) follows at once
\* where a timer was armed. A successful response whose body is relayed is not read.
FetchResolves ==
  LET UnreadAs(ctype) == RawBody("notjson", "unread", ctype)
  IN
  \* 300: a non-success status below 400 (fetch follows the redirects that carry a
  \* Location and resolves with any other 3xx as it is)
  LET Statuses == {200, 300, 400, 401, 402, 403, 404, 429, 502, 503, 504}
  IN
  LET UpstreamTypes == {Absent, "text/event-stream", "application/json"}
  IN
  /\ pc = "fetch"
  /\ \E status \in Statuses :
       IF ResOk(status) /\ ~cur.readOk
       THEN \E ct \in UpstreamTypes : Settle(HttpResult(status, UnreadAs(ct)))
       ELSE /\ pc' = "body"
            /\ net' = status
            /\ timer' = FALSE
            /\ UNCHANGED <<handler, req, cur, calls, results, inflight, loc, resp,
                           vtok, vnow, vres, fin, fout>>

\* await res.text() / res.json() resolves
BodyResolves ==
  LET J(says) ==
        RawBody(IF says = "mnf" THEN "errnomsg" ELSE IF says = "ok" THEN "object" ELSE "errobject",
                says, "application/json")
  IN
  \* a 200 carries a chat-completion object, text that is not JSON, or the array
  \* [{generated_text: "..."}] of the legacy inference API
  LET BodiesOf(status) ==
        CASE status = 200 -> {J("ok"), T("ok"), RawBody("array", "ok", "application/json")}
          [] status = 400 -> {J("plain"), J("notchat"), J("notexist"), J("ctx")}
          [] status = 401 -> {J("plain"), J("mnf")}
          [] status = 502 -> {J("plain"), T("plain")}
          [] status = 503 -> {J("plain"), J("ctx")}
          [] OTHER -> {J("plain")}
  IN
  /\ pc = "body"
  /\ \E b \in BodiesOf(net) : Settle(HttpResult(net, b))

\* fetch rejects (DNS, connection refused, reset)
FetchRejects ==
  /\ pc = "fetch"
  /\ Settle(FailResult("reject"))

\* the body read rejects (connection lost mid-body)
BodyRejects ==
  /\ pc = "body"
  /\ Settle(FailResult("reject"))

\* setTimeout(() => controller.abort(), timeoutMs) fires while fetch is pending
TimerFires ==
  /\ pc = "fetch"
  /\ timer
  /\ Settle(FailResult("abort"))

Next ==
  \/ Receive_server_space
  \/ Receive_part003_raw
  \/ Receive_part008
  \/ Receive_part000_hybrid
  \/ Receive_part000_prod
  \/ Receive_part003_dbg
  \/ Receive_part005
  \/ Receive_part012
  \/ Receive_server_final
  \/ Receive_part011
  \/ Receive_part006
  \/ Receive_part007
  \/ Receive_part003_router
  \/ Receive_part009
  \/ Receive_part001
  \/ FetchResolves
  \/ BodyResolves
  \/ FetchRejects
  \/ BodyRejects
  \/ TimerFires

Spec == Init /\ [][Next]_vars

\* ------------------------------------------------------------------ verifyToken alone
InitVerify ==
  /\ handler = "none" /\ req = NoReq /\ pc = "idle"
  /\ cur = NoCall /\ timer = FALSE /\ net = 0
  /\ calls = <<>> /\ results = <<>> /\ inflight = 0
  /\ loc = Loc0 /\ resp = NoResp
  /\ vtok \in Tokens /\ vnow \in 0..MaxTime /\ vres = {}
  /\ fin = NoInput /\ fout = {}

Record(f, b) ==
  LET Applied == \E x \in BOOLEAN : <<f, x>> \in vres
  IN
  /\ ~Applied
  /\ vres' = vres \cup {<<f, b>>}
  /\ UNCHANGED <<handler, req, pc, cur, timer, net, calls, results, inflight, loc,
                 resp, vtok, vnow, fin, fout>>

NextVerify ==
  \/ Record("server", verifyToken_server(vtok, vnow))
  \/ Record("part012", verifyToken_part012(vtok, vnow))
  \/ Record("part003", verifyToken_part003(vtok, vnow))
  \/ Record("part008", verifyToken_part008(vtok, vnow))
  \/ Record("part000", verifyToken_part000(vtok, vnow))
  \/ Record("part000_hybrid", verifyToken_part000_hybrid(vtok, vnow))
  \/ Record("part002", verifyToken_part002(vtok, vnow))

SpecVerify == InitVerify /\ [][NextVerify]_vars

\* ------------------------------------------------------------------ formatHfError alone
InitFormat ==
  \* An upstream body: the shape of the JSON text (or "notjson"), what its error
  \* message says, and the Content-Type header it came with (Absent: none).
  \*   "notchat"  ... "is not a chat model" / model_not_supported
  \*   "notexist" ... "model X does not exist"
  \*   "mnf"      ... {"error": {"code": "model_not_found", ...}}
  \*   "ctx"      ... mentions "context length"
  \* Shapes: null, 7, "text", {}, {"error": "text"}, {"error": {"message": "text"}},
  \* {"error": {"code": "text"}}.
  LET Shapes ==
        {"notjson", "null", "number", "string", "object", "errstring", "errobject", "errnomsg"}
  IN
  \* statuses the tables name, and some they do not (200, 402, 404, 410, 418)
  LET FormatStatuses == {200, 400, 401, 402, 403, 404, 410, 418, 429, 500, 502, 503, 504}
  IN
  \* what the text of each shape can say: null and 7 say nothing, the empty text is
  \* the empty body, "", {"error": ""} or {"error": {"message": ""}}
  LET SaysOf(shape) ==
        CASE shape \in {"null", "number"} -> {"plain"}
          [] shape \in {"object", "errnomsg"} -> {"plain", "ctx"}
          [] OTHER -> {"", "plain", "ctx"}
  IN
  LET RawBodies ==
        UNION {{RawBody(sh, says, "application/json") : says \in SaysOf(sh)} : sh \in Shapes}
  IN
  /\ handler = "none" /\ req = NoReq /\ pc = "idle"
  /\ cur = NoCall /\ timer = FALSE /\ net = 0
  /\ calls = <<>> /\ results = <<>> /\ inflight = 0
  /\ loc = Loc0 /\ resp = NoResp
  /\ vtok = NoHeader /\ vnow = 0 /\ vres = {}
  /\ fin \in {[status |-> st, body |-> b, msgs |-> <<>>, model |-> Absent] :
               st \in FormatStatuses, b \in RawBodies}
  /\ fout = {}

Compute(f, out) ==
  LET Computed == \E o \in fout : o[1] = f
  IN
  /\ ~Computed
  /\ fout' = fout \cup {<<f, out>>}
  /\ UNCHANGED <<handler, req, pc, cur, timer, net, calls, results, inflight, loc,
                 resp, vtok, vnow, vres, fin>>

NextFormat ==
  \/ Compute("server", formatHfError_server(fin.status, fin.body))
  \/ Compute("part011", formatHfError_part011(fin.status, fin.body))
  \/ Compute("part000", formatHfError_part000(fin.status, fin.body))
  \/ Compute("part003_dbg", formatHfError_part003_dbg(fin.status, fin.body))

SpecFormat == InitFormat /\ [][NextFormat]_vars

\* ------------------------------------------------------------------ the raw template alone
InitTemplate ==
  \* non-empty message sequences of at most MaxMsgs messages
  LET TemplateMessages ==
        {[role |-> r, content |-> c] :
           r \in {"system", "user", "assistant"}, c \in {"hello", "", Injected}}
  IN
  LET TemplateInputs ==
        UNION {[1..n -> TemplateMessages] : n \in 1..MaxMsgs}
  IN
  LET TemplateModels ==
        {"Piyush-boss/Nexari-Qwen-3B-Full", "deepseek-ai/DeepSeek-R1-Distill-Qwen-1.5B"}
  IN
  /\ handler = "none" /\ req = NoReq /\ pc = "idle"
  /\ cur = NoCall /\ timer = FALSE /\ net = 0
  /\ calls = <<>> /\ results = <<>> /\ inflight = 0
  /\ loc = Loc0 /\ resp = NoResp
  /\ vtok = NoHeader /\ vnow = 0 /\ vres = {}
  /\ fin \in {[status |-> 0, body |-> T("plain"), msgs |-> m, model |-> id] :
               m \in TemplateInputs, id \in TemplateModels}
  /\ fout = {}

NextTemplate ==
  LET Rendered(turns) == [turns |-> turns, text |-> ChatML(turns)]
  IN
  \/ Compute("part003", Rendered(applyChatTemplate(fin.msgs)))
  \/ Compute("part005", Rendered(rawPrompt_part005(fin.msgs)))
  \/ Compute("part011", Rendered(generatePrompt(fin.msgs, fin.model)))

SpecTemplate == InitTemplate /\ [][NextTemplate]_vars

\* ================================================================== claims
\* C1 (as stated): no upstream call is issued for a POST whose token fails
\* verification (no header, malformed split, wrong signature, undecodable payload,
\* missing or expired exp); the handler answers 401.
C1_NoCallForUnverifiedToken ==
  LET t == req.token
      verifies == /\ t.hdr /\ SplitOk(t) /\ t.signature = Hmac(t.payloadB64)
                  /\ ~DecodeThrows(t.payloadB64)
                  /\ HasExp(t.payloadB64) /\ t.payloadB64.exp > req.now
  IN (handler \in {"server_space", "part003_raw", "part008"}
        /\ req.method = "POST" /\ ~verifies)
       => (calls = <<>> /\ (pc = "done" => resp.status = 401))

\* C1: the handler of part_003:234 has an upstream call in flight for a token whose
\* signature is forged.
C1_ForgedTokenReachesUpstream ==
  /\ handler = "part003_raw" /\ req.token.signature = SigForged
  /\ pc = "fetch" /\ Len(calls) = 1

\* C2 (as stated): verifyToken is true for a correct signature with exp in the
\* future, and false for every token whose exp is in the past, whatever its signature.
C2_VerifyTokenFutureAndPast ==
  \A f \in {"part012", "server", "part003"} : \A b \in BOOLEAN :
    <<f, b>> \in vres =>
      /\ (vtok.hdr /\ vtok.signature = Hmac(vtok.payloadB64)
            /\ HasExp(vtok.payloadB64) /\ vtok.payloadB64.exp > vnow) => b
      /\ (vtok.hdr /\ HasExp(vtok.payloadB64) /\ vtok.payloadB64.exp < vnow) => ~b

\* C2: verifyToken of server.ts:29 has returned true for a token whose exp is past.
C2_ExpiredTokenAccepted ==
  /\ <<"server", TRUE>> \in vres
  /\ HasExp(vtok.payloadB64) /\ vtok.payloadB64.exp < vnow

\* C3 (as stated): a correctly signed token is accepted only if its payload has a
\* numeric exp strictly greater than the current second; exp equal to the current
\* second and a payload without exp are denied.
C3_AcceptOnlyStrictlyFutureExp ==
  \A f \in {"part008", "part000", "part002"} :
    <<f, TRUE>> \in vres =>
      (HasExp(vtok.payloadB64) /\ vtok.payloadB64.exp > vnow)

\* C3: verifyToken of part_008:35 has returned true for a token without exp or
\* whose exp is the current second.
C3_BoundaryTokenAccepted ==
  /\ <<"part008", TRUE>> \in vres
  /\ (~HasExp(vtok.payloadB64) \/ vtok.payloadB64.exp = vnow)

\* C4 (as stated): an upstream call is issued only with a non-empty message
\* sequence; a body that yields no message (such as {}) is answered 400 with the
\* invalid-request code and no upstream call.
C4_NoCallWithoutMessages ==
  LET b == req.body
      yieldsNoMessage == /\ b.parse
                         /\ ~(IsArray(b.messages) /\ Len(b.messages.v) > 0)
                         /\ ~AnyInput(b)
      admitted == handler = "part000_hybrid" => verifyToken_part000_hybrid(req.token, req.now)
  IN (handler \in {"server_final", "part000_hybrid"}
        /\ req.method = "POST" /\ admitted /\ yieldsNoMessage)
       => /\ calls = <<>>
          /\ pc = "done" => (resp.status = 400 /\ resp.code = "INVALID_REQUEST")

\* C4: the handler of part_000:33 has an upstream call in flight whose payload
\* carries no messages.
C4_CallWithoutMessages ==
  /\ handler = "part000_hybrid" /\ pc = "fetch"
  /\ Len(calls) = 1 /\ ~IsArray(calls[1].messages)

C8_OneOutstandingCall ==
  /\ inflight <= 1
  /\ pc \in {"fetch", "body"} => (inflight = 1 /\ Len(results) = Len(calls) - 1)
  /\ pc = "done" => Len(results) = Len(calls)

\* C8: a second upstream call of the request is in flight.
C8_SecondCallInFlight ==
  /\ Len(calls) >= 2 /\ pc = "fetch" /\ inflight = 1

\* C9 (as stated): every upstream call, buffered or streaming, is under the request
\* timeout while the gateway waits for its headers or for its body.
C9_EveryAwaitTimed ==
  (handler \in {"server_final", "part006"} /\ pc \in {"fetch", "body"}) => timer

\* C9: the streaming call of server.ts:603 is awaited with no timeout armed.
C9_StreamAwaitedUntimed ==
  /\ handler = "server_final" /\ pc = "fetch"
  /\ cur.stream = "true" /\ ~timer

C12_LegacyContentIsNonEmptyField ==
  LET b == req.body
      given == {v \in {b.input, b.inputs, b.prompt, b.message} : v # Absent /\ v # ""}
  IN (handler \in {"server_final", "part011"} /\ b.parse /\ ~IsArray(b.messages)
        /\ given # {} /\ calls # <<>>)
       => /\ IsArray(calls[1].messages)
          /\ Len(calls[1].messages.v) = 1
          /\ calls[1].messages.v[1].role = "user"
          /\ calls[1].messages.v[1].content \in given

\* C12 witness: input is the empty string, prompt is not, and the message sent
\* upstream has the empty content
C12_EmptyFieldForwarded ==
  /\ handler = "server_final" /\ calls # <<>>
  /\ ~IsArray(req.body.messages)
  /\ req.body.input = "" /\ req.body.prompt = "yo"
  /\ calls[1].messages.v = <<[role |-> "user", content |-> ""]>>

\* C13 (as stated): every failure response (status 400 or above) has a JSON object
\* body whose error object carries a code, and a request whose token is missing or
\* wrongly signed is answered 401 with the authentication code.
C13_FailuresCarryErrorCode ==
  (handler \in {"part008", "part003_dbg"} /\ pc = "done")
    => /\ resp.status >= 400 => (resp.mode = "json" /\ resp.code # "")
       /\ (req.method # "OPTIONS"
             /\ (~req.token.hdr \/ req.token.signature # Hmac(req.token.payloadB64)))
            => (resp.status = 401 /\ resp.code \in {"UNAUTHORIZED", "AUTH_ERROR"})

\* C13 witness: a failure answered with a plain-text body
C13_PlainTextFailure ==
  /\ handler = "part008" /\ pc = "done"
  /\ req.method = "GET" /\ req.token.hdr /\ req.token.signature = Hmac(req.token.payloadB64)
  /\ resp.status = 405 /\ resp.mode = "text" /\ resp.code = ""

C15_StatusTableOfTheSpec ==
  \A o \in fout :
    o[1] \in {"server", "part011"} =>
      LET st == fin.status
          code == o[2].code
          others == {"UNKNOWN_ERROR", "MODEL_LOADING", "HEAVY_TRAFFIC", "AUTH_ERROR",
                     "INVALID_REQUEST", "UPSTREAM_ERROR", "CONTEXT_LIMIT"}
      IN /\ st \in {401, 403} => code = "AUTH_ERROR"
         /\ st \in {402, 404} => code \notin others
         /\ st = 429 => code = "HEAVY_TRAFFIC"
         /\ st \in {502, 504} => code = "UPSTREAM_ERROR"
         /\ st = 503 => code = "MODEL_LOADING"
         /\ code = "CONTEXT_LIMIT" => (st = 400 /\ fin.body.says = "ctx")

\* C15 witness: a 503 whose body mentions the context length is classified as a
\* context-limit error by server.ts
C15_LoadingAnsweredAsContextLimit ==
  /\ fin.status = 503 /\ fin.body.says = "ctx"
  /\ \E o \in fout : o[1] = "server" /\ o[2].code = "CONTEXT_LIMIT"

\* C16 (as stated): a request whose method is neither POST nor OPTIONS is answered
\* 405, whatever its token and body, and no upstream call is issued for it.
C16_OtherMethodsGet405 ==
  (handler \in {"part005", "part008", "server_final"}
     /\ req.method \notin {"POST", "OPTIONS"})
    => (calls = <<>> /\ pc = "done" /\ resp.status = 405)

\* C16 witness: a PUT with an accepted token reached the upstream through the
\* handler of part_005
C16_PutReachesUpstream ==
  /\ handler = "part005" /\ req.method = "PUT"
  /\ calls # <<>> /\ pc = "done" /\ resp.status = 200

\* C17 (as stated): every streaming success response has status 200, Content-Type
\* text/event-stream and Cache-Control no-cache, whatever Content-Type the upstream
\* response carried, and its body is the unread body of the upstream call.
C17_StreamHeadersFixed ==
  (handler \in {"server_final", "part003_dbg", "part012"}
     /\ pc = "done" /\ resp.mode = "stream")
    => /\ resp.status = 200
       /\ resp.ctype = "text/event-stream"
       /\ resp.cache = "no-cache"
       /\ resp.from = Len(results)
       /\ results[resp.from].ok /\ results[resp.from].says = "unread"

\* C17 witness: the upstream answered the streamed call with Content-Type
\* application/json and the response of server.ts carries that type
C17_UpstreamTypeRelayed ==
  /\ handler = "server_final" /\ pc = "done" /\ resp.mode = "stream"
  /\ results[1].ctype = "application/json"
  /\ resp.ctype = "application/json"

C19_DefaultSystemIffFirstNotSystem ==
  \A o \in fout :
    o[1] \in {"part003", "part005"} =>
      LET m == fin.msgs
          turns == o[2].turns
          text == o[2].text
          pre == IF m[1].role # "system" THEN 1 ELSE 0
      IN /\ Len(turns) = pre + Len(m) + 1
         /\ pre = 1 => (turns[1].role = "system" /\ turns[1].closed
                          /\ turns[1].content \notin {m[i].content : i \in 1..Len(m)})
         /\ \A i \in 1..Len(m) :
              turns[pre + i] = [role |-> m[i].role, content |-> m[i].content,
                                closed |-> TRUE]
         /\ turns[Len(turns)] = [role |-> "assistant", content |-> "", closed |-> FALSE]
         /\ SubSeq(text, Len(text) - 2, Len(text)) = <<ImStart, "assistant", NL>>

\* C19 (amended): as stated for applyChatTemplate of part_003; callRawAPI of
\* part_005 prepends its default system turn exactly when no message at all has
\* role system, then emits one closed turn per message in order and the open
\* assistant marker.
C19_DefaultSystemPerVariant ==
  \A o \in fout :
    o[1] \in {"part003", "part005"} =>
      LET m == fin.msgs
          turns == o[2].turns
          text == o[2].text
          pre == IF o[1] = "part003"
                 THEN (IF m[1].role # "system" THEN 1 ELSE 0)
                 ELSE (IF \A i \in 1..Len(m) : m[i].role # "system" THEN 1 ELSE 0)
      IN /\ Len(turns) = pre + Len(m) + 1
         /\ pre = 1 => (turns[1].role = "system" /\ turns[1].closed
                          /\ turns[1].content \notin {m[i].content : i \in 1..Len(m)})
         /\ \A i \in 1..Len(m) :
              turns[pre + i] = [role |-> m[i].role, content |-> m[i].content,
                                closed |-> TRUE]
         /\ turns[Len(turns)] = [role |-> "assistant", content |-> "", closed |-> FALSE]
         /\ SubSeq(text, Len(text) - 2, Len(text)) = <<ImStart, "assistant", NL>>

\* C19 witness: [user "hello"] rendered by applyChatTemplate as default system
\* turn, user turn, open assistant marker
C19_HelloRendered ==
  /\ fin.msgs = <<[role |-> "user", content |-> "hello"]>>
  /\ \E o \in fout :
       /\ o[1] = "part003"
       /\ Len(o[2].turns) = 3
       /\ o[2].turns[1].role = "system"
       /\ o[2].turns[2] = [role |-> "user", content |-> "hello", closed |-> TRUE]
       /\ o[2].text = <<ImStart, "system", NL, o[2].turns[1].content, ImEnd, NL,
                        ImStart, "user", NL, "hello", ImEnd, NL,
                        ImStart, "assistant", NL>>

\* C20 (as stated): splitting the rendered text at the turn delimiters (a turn
\* starts at each <|im_start|>, its role runs to the line feed, its content to the
\* first <|im_end|>) gives back exactly the role/content pairs of the messages,
\* in order.
C20_SplitRecoversMessages ==
  \A o \in fout :
    o[1] \in {"part003", "part011"} =>
      LET t == o[2].text
          m == fin.msgs
          starts == {i \in 1..Len(t) : t[i] = ImStart}
          nth(n) == CHOOSE i \in starts : Cardinality({j \in starts : j < i}) = n - 1
          stop(i) == LET later == {j \in starts : j > i}
                     IN IF later = {} THEN Len(t) + 1
                        ELSE CHOOSE j \in later : \A k \in later : j <= k
          ends(i) == {j \in i..(stop(i) - 1) : t[j] = ImEnd}
          close(i) == CHOOSE j \in ends(i) : \A k \in ends(i) : j <= k
          segment(n) == LET i == nth(n)
                        IN [closed |-> ends(i) # {},
                            role |-> t[i + 1],
                            content |-> IF ends(i) # {} THEN SubSeq(t, i + 3, close(i) - 1)
                                        ELSE <<>>]
          segments == [n \in 1..Cardinality(starts) |-> segment(n)]
          IsClosed(sg) == sg.closed
          recovered == SelectSeq(segments, IsClosed)
      IN /\ Len(recovered) = Len(m)
         /\ \A i \in 1..Len(m) :
              /\ recovered[i].role = m[i].role
              /\ recovered[i].content = TokensOf(m[i].content)

\* C20 witness: one user message whose content holds the delimiters is rendered
\* by generatePrompt (no default system turn for this model) as a text that
\* splits into two closed turns and the assistant marker
C20_DelimiterInContentSplitsTurn ==
  /\ fin.msgs = <<[role |-> "user", content |-> Injected]>>
  /\ fin.model = "deepseek-ai/DeepSeek-R1-Distill-Qwen-1.5B"
  /\ \E o \in fout :
       /\ o[1] = "part011"
       /\ Len(o[2].turns) = 2
       /\ Cardinality({i \in 1..Len(o[2].text) : o[2].text[i] = ImStart}) = 3
       /\ Cardinality({i \in 1..Len(o[2].text) : o[2].text[i] = ImEnd}) = 2

\* ------------------------------------------------------------------ cleanAiResponse alone
\* Longest text given to cleanAiResponse. A text is a sequence of characters; the
\* words SEP, CLS and PAD stand as one element each.
MaxChars == 4
\* the null of `string | null`, kept apart from the empty text
NullText == <<"<null>">>

\* part_002:96
cleanAiResponse(text) ==
  LET ws == {" ", "\n"}
      \* /<\|.*?\|>/g : the leftmost "<|", then the nearest "|>" on the same line
      special(s) ==
        LET scan[i \in 1..Len(s) + 1] ==
              IF i > Len(s) THEN <<>>
              ELSE IF s[i] = "<" /\ i + 1 <= Len(s) /\ s[i + 1] = "|"
              THEN LET ends == {j \in i + 2..Len(s) - 1 :
                                  /\ s[j] = "|" /\ s[j + 1] = ">"
                                  /\ \A k \in i + 2..j - 1 : s[k] # "\n"}
                   IN IF ends = {} THEN <<s[i]>> \o scan[i + 1]
                      ELSE scan[(CHOOSE j \in ends : \A k \in ends : j <= k) + 2]
              ELSE <<s[i]>> \o scan[i + 1]
        IN scan[1]
      \* /\[(SEP|CLS|PAD)\]/g
      bracket(s) ==
        LET scan[i \in 1..Len(s) + 1] ==
              IF i > Len(s) THEN <<>>
              ELSE IF /\ s[i] = "[" /\ i + 2 <= Len(s)
                      /\ s[i + 1] \in {"SEP", "CLS", "PAD"} /\ s[i + 2] = "]"
              THEN scan[i + 3]
              ELSE <<s[i]>> \o scan[i + 1]
        IN scan[1]
      \* /井/g
      hash(s) == SelectSeq(s, LAMBDA c : c # "井")
      \* /^\s*#+\s*/gm : at a line start, blanks, one or more "#", blanks
      heading(s) ==
        LET run(i, set) ==
              LET stops == {j \in i..Len(s) : s[j] \notin set}
              IN IF stops = {} THEN Len(s) + 1
                 ELSE CHOOSE j \in stops : \A k \in stops : j <= k
            scan[i \in 1..Len(s) + 1] ==
              IF i > Len(s) THEN <<>>
              ELSE LET h == run(i, ws)
                       e == run(h, {"#"})
                   IN IF (i = 1 \/ s[i - 1] = "\n") /\ e > h
                      THEN scan[run(e, ws)]
                      ELSE <<s[i]>> \o scan[i + 1]
        IN scan[1]
      \* String.prototype.trim
      trim(s) ==
        LET keep == {i \in 1..Len(s) : s[i] \notin ws}
        IN IF keep = {} THEN <<>>
           ELSE LET lo == CHOOSE i \in keep : \A k \in keep : i <= k
                    hi == CHOOSE i \in keep : \A k \in keep : i >= k
                IN SubSeq(s, lo, hi)
  IN IF text = NullText \/ text = <<>> THEN NullText
     ELSE trim(heading(hash(bracket(special(text)))))

InitClean ==
  LET Chars == {"<", "|", ">", "[", "PAD", "]", "井", "#", " ", "\n", "a"}
  IN
  /\ handler = "none" /\ req = NoReq /\ pc = "idle"
  /\ cur = NoCall /\ timer = FALSE /\ net = 0
  /\ calls = <<>> /\ results = <<>> /\ inflight = 0
  /\ loc = Loc0 /\ resp = NoResp
  /\ vtok = NoHeader /\ vnow = 0 /\ vres = {}
  /\ fin \in UNION {[1..n -> Chars] : n \in 0..MaxChars}
  /\ fout = <<>>

\* cleanAiResponse applied to the text, then to its own result
Clean ==
  /\ Len(fout) < 2
  /\ fout' = Append(fout, cleanAiResponse(IF fout = <<>> THEN fin ELSE fout[Len(fout)]))
  /\ UNCHANGED <<handler, req, pc, cur, timer, net, calls, results, inflight, loc,
                 resp, vtok, vnow, vres, fin>>

SpecClean == InitClean /\ [][Clean]_vars

\* C21 (as stated): the artifact-sanitation pass is idempotent: for every string s,
\* cleanAiResponse(cleanAiResponse(s)) equals cleanAiResponse(s).
C21_CleanIsIdempotent ==
  Len(fout) = 2 => fout[2] = fout[1]

\* C21 failing case: removing the character 井 from "[井PAD]" leaves the token "[PAD]"
\* in the first result, which only a second pass removes.
C21_RemovalExposesToken ==
  /\ fin = <<"[", "井", "PAD", "]">>
  /\ Len(fout) = 2
  /\ fout[1] = <<"[", "PAD", "]">>
  /\ fout[2] = <<>>

\* ------------------------------------------------------------------ extractText alone
\* the null of `string | null` returned by the extractors
NoText == "<null>"

\* server.ts:657 (the same body at part_002:76). `data` is a parsed upstream body:
\* kind object, array, string or null; choices is the choices array (<<>> when the
\* field is missing or empty: both fail the length test); a field holds Absent, a
\* string ("" included) or the number Num7; an array element is a string (str) or
\* an object.
extractText(data) ==
  LET isString(x) == x \notin {Absent, Num7}
      obj == data.kind = "object"
      c == data.choices[1]
  IN IF obj /\ Len(data.choices) > 0 /\ Truthy(c.content) /\ isString(c.content)
     THEN c.content
     ELSE IF obj /\ Len(data.choices) > 0 /\ Truthy(c.text) /\ isString(c.text)
     THEN c.text
     ELSE IF obj /\ Truthy(data.generated_text) /\ isString(data.generated_text)
     THEN data.generated_text
     ELSE IF obj /\ Truthy(data.output_text) /\ isString(data.output_text)
     THEN data.output_text
     ELSE IF data.kind = "string" THEN data.s
     ELSE NoText

\* part_003:424
extractTextFromRouterResponse(data) ==
  LET isString(x) == x \notin {Absent, Num7}
      obj == data.kind = "object"
      c == data.choices[1]
      first == data.items[1]
  IN IF obj /\ Len(data.choices) > 0 /\ Truthy(c.content) /\ isString(c.content)
     THEN c.content
     ELSE IF obj /\ Len(data.choices) > 0 /\ isString(c.text)
     THEN c.text
     ELSE IF data.kind = "array" /\ Len(data.items) > 0
             /\ (first.str = Absent \/ Truthy(first.str)) /\ first.str # Absent
     THEN first.str
     ELSE IF data.kind = "array" /\ Len(data.items) > 0
             /\ (first.str = Absent \/ Truthy(first.str)) /\ Truthy(first.generated_text)
     THEN first.generated_text
     ELSE IF obj /\ Truthy(data.output_text) /\ isString(data.output_text)
     THEN data.output_text
     ELSE IF obj /\ Truthy(data.generated_text) /\ isString(data.generated_text)
     THEN data.generated_text
     ELSE IF data.kind = "string" THEN data.s
     ELSE NoText

\* part_009:24
extractTextFromHfLike(data) ==
  LET isString(x) == x \notin {Absent, Num7}
      obj == data.kind = "object"
      c == data.choices[1]
      first == data.items[1]
      arr == data.kind = "array" /\ Len(data.items) > 0
  IN IF obj /\ Len(data.choices) > 0 /\ Truthy(c.content) /\ isString(c.content)
     THEN c.content
     ELSE IF obj /\ Len(data.choices) > 0 /\ isString(c.text)
     THEN c.text
     ELSE IF arr /\ first.str # Absent THEN first.str
     ELSE IF arr /\ Truthy(first.generated_text) /\ isString(first.generated_text)
     THEN first.generated_text
     ELSE IF arr /\ Truthy(first.text) /\ isString(first.text)
     THEN first.text
     ELSE IF obj /\ isString(data.generated_text) THEN data.generated_text
     ELSE IF obj /\ isString(data.text) THEN data.text
     ELSE IF obj /\ Truthy(data.output) THEN data.output
     ELSE IF obj /\ isString(data.output_text) THEN data.output_text
     ELSE IF data.kind = "string" THEN data.s
     ELSE NoText

InitExtract ==
  LET Vals(label) == {Absent, "", label, Num7}
      Blank == [kind |-> "null", choices |-> <<>>, generated_text |-> Absent,
                output_text |-> Absent, text |-> Absent, output |-> Absent,
                items |-> <<>>, s |-> Absent]
      Choices == {<<>>} \cup {<<[content |-> x, text |-> y]>> :
                                x \in Vals("content"), y \in Vals("choice text")}
      Objects == {[Blank EXCEPT !.kind = "object", !.choices = ch, !.generated_text = g,
                                !.output_text = o, !.text = t, !.output = u] :
                    ch \in Choices, g \in Vals("generated"), o \in Vals("output_text"),
                    t \in {Absent, "text"}, u \in {Absent, "output generated"}}
      Elements == {[str |-> x, generated_text |-> Absent, text |-> Absent] :
                     x \in {"", "element"}}
                  \cup {[str |-> Absent, generated_text |-> g, text |-> t] :
                          g \in Vals("generated"), t \in {Absent, "text"}}
      Arrays == {[Blank EXCEPT !.kind = "array", !.items = it] :
                   it \in {<<>>} \cup {<<e>> : e \in Elements}}
      Strings == {[Blank EXCEPT !.kind = "string", !.s = x] : x \in {"", "body"}}
  IN
  /\ handler = "none" /\ req = NoReq /\ pc = "idle"
  /\ cur = NoCall /\ timer = FALSE /\ net = 0
  /\ calls = <<>> /\ results = <<>> /\ inflight = 0
  /\ loc = Loc0 /\ resp = NoResp
  /\ vtok = NoHeader /\ vnow = 0 /\ vres = {}
  /\ fin \in Objects \cup Arrays \cup Strings \cup {Blank}
  /\ fout = {}

NextExtract ==
  \/ Compute("server", extractText(fin))
  \/ Compute("part003", extractTextFromRouterResponse(fin))
  \/ Compute("part009", extractTextFromHfLike(fin))

SpecExtract == InitExtract /\ [][NextExtract]_vars

\* C22 (as stated): every extractor returns the first applicable of, in this order,
\* choices[0].message.content, choices[0].text, generated_text (a bare field, or the
\* field of the first element of an array body), output_text, the body itself when
\* it is a string; so a body with both generated_text and output_text yields
\* generated_text and the array body [{generated_text: t}] yields t. Stated for
\* bodies whose fields are absent or non-empty strings and that carry none of the
\* fields the list does not name.
C22_ExtractionOrderOfTheSpec ==
  LET plain(x) == x = Absent \/ (x # "" /\ x # Num7)
      named ==
        /\ fin.text = Absent /\ fin.output = Absent
        /\ plain(fin.generated_text) /\ plain(fin.output_text)
        /\ \A i \in 1..Len(fin.choices) :
             plain(fin.choices[i].content) /\ plain(fin.choices[i].text)
        /\ \A i \in 1..Len(fin.items) :
             /\ fin.items[i].str = Absent /\ fin.items[i].text = Absent
             /\ plain(fin.items[i].generated_text)
      expected ==
        IF Len(fin.choices) > 0 /\ fin.choices[1].content # Absent
        THEN fin.choices[1].content
        ELSE IF Len(fin.choices) > 0 /\ fin.choices[1].text # Absent
        THEN fin.choices[1].text
        ELSE IF fin.generated_text # Absent THEN fin.generated_text
        ELSE IF Len(fin.items) > 0 /\ fin.items[1].generated_text # Absent
        THEN fin.items[1].generated_text
        ELSE IF fin.output_text # Absent THEN fin.output_text
        ELSE IF fin.kind = "string" THEN fin.s
        ELSE NoText
  IN \A o \in fout : named => o[2] = expected

\* C22 failing case: for the array body [{generated_text: "generated"}] extractText of
\* server.ts returns null while the extractors of part_003 and part_009 return the
\* text.
C22_ArrayBodyYieldsNull ==
  /\ fin.kind = "array"
  /\ fin.items = <<[str |-> Absent, generated_text |-> "generated", text |-> Absent]>>
  /\ <<"server", NoText>> \in fout
  /\ <<"part003", "generated">> \in fout
  /\ <<"part009", "generated">> \in fout

\* C23 (as stated): a buffered upstream 200 always produces a 200 to the caller:
\* when the handler has returned after reading the body of an upstream answer with
\* status 200, whatever the shape of that body (a JSON value no extraction path
\* matches, or text that is not JSON), its response has status 200.
C23_Buffered200Answered200 ==
  (/\ pc = "done"
   /\ Len(results) > 0
   /\ results[Len(results)].via = "http"
   /\ results[Len(results)].status = 200
   /\ results[Len(results)].says # "unread")
  => resp.status = 200

\* C23 failing case: part_001 reads a 200 whose JSON body is an object, not the
\* array it looks into, and answers 502.
C23_UnknownShapeAnswered502 ==
  /\ handler = "part001" /\ pc = "done"
  /\ Len(results) = 1
  /\ results[1].via = "http" /\ results[1].status = 200
  /\ results[1].json /\ results[1].shape = "object"
  /\ resp.status = 502

\* C24: part_006. When the handler has returned and every upstream call of the
\* request failed with model-not-found, the response is the aggregate report (404)
\* and its tried list has exactly one entry per upstream call, in attempt order,
\* each with the model id and status of that call. And whenever tryModelCandidates
\* returns a failure for the answer that settles the pending call, the failing
\* attempt (the called candidate and the status of the answer) is the last entry
\* of the tried list it returns.
C24_TriedListsEveryAttempt ==
  handler = "part006" =>
    /\ (/\ pc = "done" /\ Len(calls) > 0
        /\ \A i \in 1..Len(results) : ~results[i].ok /\ isNotFound(results[i]))
       => /\ resp.status = 404
          /\ Len(resp.tried) = Len(calls)
          /\ \A i \in 1..Len(calls) :
               /\ resp.tried[i].model = calls[i].model
               /\ resp.tried[i].status = results[i].status
    /\ pc \in {"fetch", "body"} =>
         \A st \in {200, 400, 401, 402, 404, 500, 503} :
           \A b \in {RawBody("errobject", says, "application/json") :
                       says \in {"plain", "notexist"}} :
             LET res == HttpResult(st, b)
                 a == tryModelCandidates_after(loc, res, cur)
             IN (a.t = "return" /\ ~a.success) =>
                  /\ Len(a.tried) = Len(calls)
                  /\ a.tried[Len(a.tried)] = [model |-> cur.model, status |-> st]

\* C24 witness: no model in the request, the six first candidates built from the
\* short name distilgpt2 called, each answered
\* model-not-found, and the 404 report lists the six attempts.
C24_SixAttemptsReported ==
  /\ handler = "part006" /\ pc = "done"
  /\ resp.status = 404
  /\ Len(calls) = 6 /\ Len(resp.tried) = 6
  /\ resp.tried[1].model = "distilgpt2"
  /\ resp.tried[6].model = "facebook/distilgpt2"
  /\ \A i \in 1..6 : resp.tried[i].status = results[i].status

\* C25 (as stated): normalizer rule priority. Rule 1 applies only to a non-empty
\* messages array, so a POST whose body has an empty messages array and a non-empty
\* input (or inputs, prompt, message) is normalized by rule 2 to one user message:
\* the handlers built on the normalizers do not reject it and their first upstream
\* call carries exactly that message.
C25_EmptyArrayFallsToInput ==
  (/\ handler \in {"server_final", "part011", "part006", "part003_router"}
   /\ handler = "part003_router" => Truthy(req.body.model)
   /\ req.method = "POST" /\ req.body.parse
   /\ IsArray(req.body.messages) /\ Len(req.body.messages.v) = 0
   /\ AnyInput(req.body))
  => /\ Len(calls) > 0
     /\ calls[1].messages = MsgArr(<<[role |-> "user", content |-> InputText(req.body)]>>)

\* C25 failing case: part_006 maps the empty array by rule 1, finds no message and
\* answers 400 without an upstream call although the body carries input "hi".
C25_EmptyArrayRejected ==
  /\ handler = "part006" /\ pc = "done"
  /\ req.body.messages = MsgArr(<<>>) /\ req.body.input = "hi"
  /\ resp.status = 400
  /\ calls = <<>>

\* ------------------------------------------------------------------ upstream payloads alone
\* The parameters of a request body and of an upstream payload: Absent for a key
\* that is not there, else the JSON value as text ("0", "256", "false", "true").
\* !v of JavaScript holds for a missing key, 0, false and "".
\* part_008:80: the payload of callChatEndpoint(modelId, messages, params = body)
callChatEndpoint_payload(params) ==
  LET falsy(v) == v \in {Absent, "0", "false", ""}
  IN [max_tokens |-> IF falsy(params.max_tokens) THEN "512" ELSE params.max_tokens,
      temperature |-> IF falsy(params.temperature) THEN "0.7" ELSE params.temperature,
      stream |-> "true"]

\* server.ts:689: chatPayload takes each allowed key that is in the normalized
\* body, and normalizeIncoming (server.ts:562) each allowed key that is in the body
chatPayload_server(body) ==
  [max_tokens |-> body.max_tokens, temperature |-> body.temperature,
   stream |-> body.stream]

\* server.ts:718: compPayload of the dialect fallback
compPayload_server(body) ==
  LET falsy(v) == v \in {Absent, "0", "false", ""}
  IN [max_tokens |-> IF falsy(body.max_tokens) THEN Absent ELSE body.max_tokens,
      temperature |-> IF falsy(body.temperature) THEN Absent ELSE body.temperature,
      stream |-> Absent]

InitPayload ==
  /\ handler = "none" /\ req = NoReq /\ pc = "idle"
  /\ cur = NoCall /\ timer = FALSE /\ net = 0
  /\ calls = <<>> /\ results = <<>> /\ inflight = 0
  /\ loc = Loc0 /\ resp = NoResp
  /\ vtok = NoHeader /\ vnow = 0 /\ vres = {}
  /\ fin \in [max_tokens : {Absent, "0", "256"}, temperature : {Absent, "0", "1"},
              stream : {Absent, "false", "true"}]
  /\ fout = {}

NextPayload ==
  \/ Compute("part008 chat", callChatEndpoint_payload(fin))
  \/ Compute("server chat", chatPayload_server(fin))
  \/ Compute("server completions", compPayload_server(fin))

SpecPayload == InitPayload /\ [][NextPayload]_vars

\* C26 (as stated): in every chat payload, max_tokens, temperature and stream equal
\* the request's values whenever the request supplies them (0 and false included),
\* and max_tokens is 512 and temperature 0.7 only when the request omits them; the
\* completions payload of the dialect fallback carries the same request values of
\* max_tokens and temperature.
C26_ParametersPassThrough ==
  \A o \in fout :
    /\ o[1] \in {"part008 chat", "server chat"} =>
         /\ fin.max_tokens # Absent => o[2].max_tokens = fin.max_tokens
         /\ fin.temperature # Absent => o[2].temperature = fin.temperature
         /\ fin.stream # Absent => o[2].stream = fin.stream
         /\ o[2].max_tokens = "512" => fin.max_tokens = Absent
         /\ o[2].temperature = "0.7" => fin.temperature = Absent
    /\ o[1] = "server completions" =>
         /\ fin.max_tokens # Absent => o[2].max_tokens = fin.max_tokens
         /\ fin.temperature # Absent => o[2].temperature = fin.temperature

\* C26 failing case: the request asks for max_tokens 0, temperature 0 and stream
\* false; part_008 sends 512, 0.7 and true, and the completions payload of
\* server.ts drops both numbers.
C26_ZeroReplacedByDefault ==
  /\ fin = [max_tokens |-> "0", temperature |-> "0", stream |-> "false"]
  /\ <<"part008 chat", [max_tokens |-> "512", temperature |-> "0.7", stream |-> "true"]>>
       \in fout
  /\ <<"server chat", fin>> \in fout
  /\ <<"server completions",
       [max_tokens |-> Absent, temperature |-> Absent, stream |-> Absent]>> \in fout

\* ------------------------------------------------------------------ C27
\* C27: two requests that resolve to the same upstream model and carry the same
\* messages without a system message are sent upstream with the same message
\* sequence, whether the model was named or defaulted: the request of the run
\* is compared with every request that differs from it in the model key only.
C27_SameModelSameMessagesSameSent ==
  (/\ handler \in {"part008", "part000_prod"}
   /\ Len(calls) >= 1
   /\ IsArray(req.body.messages)
   /\ ~HasSystem(req.body.messages.v))
  => \A key \in TableKeys :
       LET other == [req.body EXCEPT !.model = key]
           args == IF handler = "part008" THEN chatArgs_part008(other)
                   ELSE chatArgs_part000_prod(other)
       IN (~args.throws /\ args.targetModelId = calls[1].model)
            => args.messages = calls[1].messages

\* C27: part_008 sends the defaulted request to the Nexari model without the
\* system message that the request naming "Nexari-G1" gets.
C27_DefaultedRequestSentBare ==
  /\ handler = "part008"
  /\ req.body.model = Absent
  /\ Len(calls) >= 1
  /\ calls[1].model = "Piyush-boss/Nexari-Qwen-3B-LoRA"
  /\ calls[1].messages = MsgArr(<<UserHi>>)
  /\ chatArgs_part008([req.body EXCEPT !.model = "Nexari-G1"]).messages
       = MsgArr(<<[role |-> "system", content |-> "You are Nexari (identity)"], UserHi>>)

\* ------------------------------------------------------------------ C28
\* C28: an authenticated POST whose body parsed is never answered by an uncaught
\* exception, and a body with neither a messages array nor an input field is
\* answered 400.
C28_ShapeFaultAnswered400 ==
  (/\ handler \in {"part008", "part000_prod", "server_final"}
   /\ pc = "done"
   /\ req.method = "POST" /\ req.body.parse
   /\ resp.status # 401)
  => /\ resp.mode # "thrown"
     /\ (~IsArray(req.body.messages) /\ ~AnyInput(req.body)) => resp.status = 400

\* C28 failing case: part_008 reads messages.length of undefined for the body
\* {model: "Nexari-G1"} and the exception leaves the handler.
C28_HandlerThrows ==
  /\ handler = "part008" /\ pc = "done"
  /\ req.method = "POST" /\ req.body.parse
  /\ verifyToken_part008(req.token, req.now)
  /\ req.body.model = "Nexari-G1"
  /\ req.body.messages = MsgAbsent /\ ~AnyInput(req.body)
  /\ resp.mode = "thrown"
  /\ calls = <<>>

C30_StatusConsistent ==
  (handler \in {"part003_router", "server_final", "part007"} /\ pc = "done")
  => LET succeeded == \E i \in 1..Len(results) : results[i].ok
     IN /\ (resp.status = 200 /\ resp.mode # "none") => succeeded
        /\ (req.method # "OPTIONS" /\ ~succeeded) => resp.status \in 400..599

\* C30 failing case: the upstream answered the one call of a server.ts request
\* with 300 and the handler returned its formatted error with status 300.
C30_UpstreamStatusRelayedBelow400 ==
  /\ handler = "server_final" /\ pc = "done"
  /\ Len(results) = 1
  /\ results[1].via = "http" /\ ~results[1].ok /\ results[1].status = 300
  /\ resp.status = 300
  /\ resp.mode = "json"
====
